---- MODULE Spec2Model ----
(***************************************************************************)
(* Feature-Toggle-Service: flag evaluation, the read-through cache of      *)
(* evaluated pages, audit logging and environment promotion.               *)
(*                                                                         *)
(* The handlers of src/src/api/features.routes.ts and                      *)
(* src/src/api/promotion.routes.ts are modelled one `await` at a time, so  *)
(* that concurrent requests interleave exactly where the Node.js event     *)
(* loop lets them interleave.                                              *)
(***************************************************************************)
EXTENDS Integers, Sequences, FiniteSets, TLC

(***************************************************************************)
(* Bounds of the model.                                                    *)
(***************************************************************************)
\* requests (and TTL expiries) in a behaviour of Spec: one client, every request
MaxOps == 2
\* requests (and TTL expiries) in a behaviour of SpecKey: one client, the
\* requests that touch zebra's prod page
MaxKeyOps == 3
\* requests in a behaviour of SpecConc: two clients at the same time
MaxConcOps == 2

Tenants == {"zebra", "acme"}
\* rows of the Feature table (seed script) and a feature id that has no row
Features == {"f1", "f2"}
UnknownFeature == "fx"
\* a field the request body does not carry
Missing == ""
\* enum Environment of the schema, and a value outside it
Environment == {"dev", "staging", "prod"}
BadEnv == "qa"
\* a body or query without the environment
NoEnv == ""
EvaluationStrategy == {"BOOLEAN", "PERCENTAGE", "USER"}
\* request slots: handlers that may be in flight at the same time
Reqs == {"r1", "r2"}

(***************************************************************************)
(* JSON values, as far as strategyValue needs them.  A JSON value is a     *)
(* tagged record; an object is reduced to its "percentage" member          *)
(* (JUndef when the member is missing).                                    *)
(***************************************************************************)
JNull == [t |-> "null"]
JUndef == [t |-> "undefined"]
JNaN == [t |-> "nan"]
JNum(n) == [t |-> "num", n |-> n]
JStr(s) == [t |-> "str", s |-> s]
JBool(b) == [t |-> "bool", b |-> b]
JObj(p) == [t |-> "obj", percentage |-> p]

\* JavaScript: x?.percentage  (property access on a primitive is undefined)
JsPercentageOf(x) == IF x.t = "obj" THEN x.percentage ELSE JUndef

\* JavaScript truthiness
JsTruthy(x) ==
    CASE x.t = "null" -> FALSE
      [] x.t = "undefined" -> FALSE
      [] x.t = "nan" -> FALSE
      [] x.t = "num" -> x.n # 0
      [] x.t = "str" -> x.s # ""
      [] x.t = "bool" -> x.b
      [] OTHER -> TRUE

\* JavaScript: a || b
JsOr(a, b) == IF JsTruthy(a) THEN a ELSE b

\* JavaScript StringToNumber on the strings the model uses
JsStringToNumber(s) ==
    CASE s = "" -> JNum(0)
      [] s = "0" -> JNum(0)
      [] s = "50" -> JNum(50)
      [] s = "100" -> JNum(100)
      [] OTHER -> JNaN

\* JavaScript ToNumber, applied by the division percentage / 100
JsToNumber(x) ==
    CASE x.t = "num" -> x
      [] x.t = "str" -> JsStringToNumber(x.s)
      [] x.t = "bool" -> IF x.b THEN JNum(1) ELSE JNum(0)
      [] x.t = "null" -> JNum(0)
      [] OTHER -> JNaN

\* Math.random() in hundredths: the sample is Math.random() * 100, floored
Samples == 0 .. 99

\* Math.random() < percentage / 100, with sample = floor(Math.random() * 100);
\* exact for whole-number percentages; a comparison with NaN is false
RandomBelow(sample, percentage) ==
    LET q == JsToNumber(percentage)
    IN  IF q.t = "nan" THEN FALSE ELSE sample < q.n

(***************************************************************************)
(* Evaluation of one flag record (features.routes.ts, evaluatedFlags map). *)
(***************************************************************************)
EvaluateFlag_ignoreKillSwitch(flag, sample) ==
    CASE flag.strategy = "PERCENTAGE" ->
            RandomBelow(sample, JsOr(JsPercentageOf(flag.strategyValue), JNum(0)))
      [] OTHER -> flag.enabled

EvaluateFlag_userAsPercentage(flag, sample) ==
    IF flag.enabled
    THEN CASE flag.strategy \in {"PERCENTAGE", "USER"} ->
                RandomBelow(sample, JsOr(JsPercentageOf(flag.strategyValue), JNum(0)))
           [] OTHER -> flag.enabled
    ELSE flag.enabled

EvaluateFlag_lessOrEqual(flag, sample) ==
    IF flag.enabled
    THEN CASE flag.strategy = "PERCENTAGE" ->
                LET q == JsToNumber(JsOr(JsPercentageOf(flag.strategyValue), JNum(0)))
                IN  IF q.t = "nan" THEN FALSE ELSE sample <= q.n
           [] OTHER -> flag.enabled
    ELSE flag.enabled

\* a plausible slip: the rollout is decided by a fixed threshold, not by a draw
EvaluateFlag_fixedThreshold(flag, sample) ==
    IF flag.enabled
    THEN CASE flag.strategy = "PERCENTAGE" ->
                RandomBelow(49, JsOr(JsPercentageOf(flag.strategyValue), JNum(0)))
           [] OTHER -> flag.enabled
    ELSE flag.enabled

EvaluateFlag(flag, sample) ==
    IF flag.enabled
    THEN CASE flag.strategy = "PERCENTAGE" ->
                RandomBelow(sample, JsOr(JsPercentageOf(flag.strategyValue), JNum(0)))
           [] flag.strategy = "USER" -> flag.enabled
           [] OTHER -> flag.enabled
    ELSE flag.enabled

(***************************************************************************)
(* State.                                                                  *)
(***************************************************************************)
VARIABLES
    flags,      \* table FeatureFlag: a set of rows
    nextId,     \* the next fresh row id (cuid() in the schema)
    clock,      \* logical time of the store: the number of commits so far
    cache,      \* Redis: cache key -> stored page, or NoEntry
    audit,      \* table AuditLog, in insertion order
    req,        \* request slot -> the handler's position and locals (and, for
                \* a write, the row its mutation replaced or removed)
    resp,       \* the response sent last
    prev,       \* the response sent before it
    ops,        \* requests started and TTL expiries so far
    sinceWrite, \* cache key -> what was answered since the last successful write
    lastWrite,  \* cache key -> clock of the last commit touching its rows
    lastInval,  \* cache key -> clock of the newest commit whose writer's DEL ran
    redis,      \* whether Redis answers the commands sent to it
    wallClock,  \* seconds elapsed; measured in SpecTtl only, the other
                \* specifications let Expire say that a TTL has run out
    evalIn,     \* the flag record under evaluation (evaluation harness)
    evalOut     \* the sample drawn and the decision computed for evalIn

svc == <<flags, nextId, clock, cache, audit, req, resp, prev, ops, sinceWrite,
         lastWrite, lastInval, wallClock, redis>>
vars == <<svc, evalIn, evalOut>>

NoFlag == [id |-> 0]
NoEntry == [present |-> FALSE]
NoFilter == <<>>
Idle == [pc |-> "idle"]
NoEval == [done |-> FALSE]

\* cache.service.ts createCacheKey: `features:${tenantId}:${env}`
\* const CACHE_TTL = parseInt(process.env.CACHE_TTL || '60', 10): the default,
\* in seconds
CACHE_TTL == 60

createCacheKey(tenantId, env) == <<"features", tenantId, env>>
CacheKeys == {createCacheKey(t, e) : t \in Tenants, e \in Environment}

\* Feature.name of the seeded features, as character sequences
FeatureName(f) ==
    IF f = "f1"
    THEN <<"n", "e", "w", "-", "d", "a", "s", "h", "b", "o", "a", "r", "d">>
    ELSE <<"b", "e", "t", "a", "-", "c", "h", "e", "c", "k", "o", "u", "t">>

(***************************************************************************)
(* The flag store (Prisma on PostgreSQL).                                  *)
(***************************************************************************)
\* featureFlag.findUnique({where: {tenantId_featureId_env}})
FindUnique(store, t, f, e) ==
    LET hit == {x \in store : x.tenantId = t /\ x.featureId = f /\ x.env = e}
    IN  IF hit = {} THEN NoFlag ELSE CHOOSE x \in hit : TRUE

\* featureFlag.findMany({where: {tenantId, env}})
FindMany(store, t, e) == {x \in store : x.tenantId = t /\ x.env = e}

NewRow(id, now, t, f, e, d) ==
    [id |-> id, tenantId |-> t, featureId |-> f, env |-> e,
     enabled |-> d.enabled, strategy |-> d.strategy,
     strategyValue |-> d.strategyValue, createdAt |-> now, updatedAt |-> now]

\* a plausible slip: create instead of upsert (no unique index to stop it)
DbUpsert_alwaysInsert(store, id, now, t, f, e, d) ==
    store \cup {NewRow(id, now, t, f, e, d)}

\* a plausible slip: the update branch leaves the strategy of the row as it was
DbUpsert_keepsStrategy(store, id, now, t, f, e, d) ==
    LET old == FindUnique(store, t, f, e)
    IN  IF old = NoFlag
        THEN store \cup {NewRow(id, now, t, f, e, d)}
        ELSE (store \ {old}) \cup
             {[old EXCEPT !.enabled = d.enabled,
                          !.strategyValue = d.strategyValue, !.updatedAt = now]}

\* a plausible slip: the row is deleted and inserted again under a fresh id
DbUpsert_reinserts(store, id, now, t, f, e, d) ==
    (store \ {FindUnique(store, t, f, e)}) \cup {NewRow(id, now, t, f, e, d)}

\* featureFlag.upsert on the unique index (tenantId, featureId, env):
\* update the row in place when it exists, insert a fresh row otherwise
DbUpsert(store, id, now, t, f, e, d) ==
    LET old == FindUnique(store, t, f, e)
    IN  IF old = NoFlag
        THEN store \cup {NewRow(id, now, t, f, e, d)}
        ELSE (store \ {old}) \cup
             {[old EXCEPT !.enabled = d.enabled, !.strategy = d.strategy,
                          !.strategyValue = d.strategyValue, !.updatedAt = now]}

\* the id the next insert takes: unchanged when the upsert updated a row
IdAfterUpsert(store, id, t, f, e) ==
    IF FindUnique(store, t, f, e) = NoFlag THEN id + 1 ELSE id

\* the upserts of one transaction, applied in order to the store
RECURSIVE ApplyUpserts(_, _, _, _)
ApplyUpserts(store, id, now, writes) ==
    IF writes = <<>> THEN [store |-> store, nextId |-> id]
    ELSE LET w == Head(writes)
         IN  ApplyUpserts(DbUpsert(store, id, now, w.tenantId, w.featureId, w.env, w),
                          IdAfterUpsert(store, id, w.tenantId, w.featureId, w.env),
                          now, Tail(writes))

\* a plausible slip: the upserts run one by one outside a transaction, so the
\* ones that succeeded before the failure stay
TransactionAbort_keepsPartial(store, id, now, writes) ==
    ApplyUpserts(store, id, now, writes)

\* prisma.$transaction([...]) rolls back: nothing of the transaction is kept
TransactionAbort(store, id, now, writes) == [store |-> store, nextId |-> id]

\* a plausible slip: the target environment is made a mirror of the source, the
\* rows of features the source lacks are deleted
TransactionCommit_mirrors(store, id, now, writes) ==
    IF writes = <<>> THEN [store |-> store, nextId |-> id]
    ELSE ApplyUpserts({x \in store :
                          ~(/\ x.tenantId = writes[1].tenantId
                            /\ x.env = writes[1].env
                            /\ \A i \in DOMAIN writes : writes[i].featureId # x.featureId)},
                      id, now, writes)

\* prisma.$transaction([...]) commits: all upserts become visible together
TransactionCommit(store, id, now, writes) == ApplyUpserts(store, id, now, writes)

(***************************************************************************)
(* Helpers of the handlers.                                                *)
(***************************************************************************)
Key(r) == createCacheKey(req[r].tenantId, req[r].env)

\* all orders in which a query without orderBy may return a set of rows
Orderings(S) ==
    {o \in [1 .. Cardinality(S) -> S] : \A i, j \in DOMAIN o : i # j => o[i] # o[j]}

Min(a, b) == IF a < b THEN a ELSE b

\* Math.ceil(a / b) for a >= 0, b >= 1
Ceil(a, b) == (a + b - 1) \div b

\* name: {contains: filter, mode: 'insensitive'}  (names and filters are lower case)
Contains(name, filter) ==
    \E i \in 1 .. (Len(name) - Len(filter) + 1) :
        SubSeq(name, i, i + Len(filter) - 1) = filter

\* the where clause of GET /features
ReadWhere(store, t, e, filter) ==
    {x \in FindMany(store, t, e) :
        filter = NoFilter \/ Contains(FeatureName(x.featureId), filter)}

\* samples a read draws from: representatives of [0, 100)
ReadSamples == {0, 49, 50, 99}

\* the decisions Math.random() can give a row
Decisions(row) == {EvaluateFlag(row, s) : s \in ReadSamples}

\* one element of evaluatedFlags
EvaluatedFlag(row, decision) ==
    [id |-> row.id, featureId |-> row.featureId, name |-> FeatureName(row.featureId),
     enabled |-> decision, env |-> row.env, strategy |-> row.strategy]

\* responsePayload of GET /features
ResponsePayload(rows, decide, total, page, limit) ==
    [data |-> [i \in DOMAIN rows |-> EvaluatedFlag(rows[i], decide[rows[i]])],
     pagination |-> [total |-> total, page |-> page, limit |-> limit,
                     totalPages |-> Ceil(total, limit)]]

AllIdle == \A r \in Reqs : req[r].pc = "idle"

IsWrite(entry) == entry.op \in {"upsert", "delete", "promote"}
IsCachedRead(entry) ==
    entry.op = "read" /\ entry.page = 1 /\ entry.filter = NoFilter

\* what the response `entry` adds to the record kept per cache key: "written"
\* after a successful write whose DEL ran, "read1" after the first successful
\* page-1 unfiltered read that follows it, "none" otherwise
Observe(entry) ==
    LET k == createCacheKey(entry.tenantId, entry.env)
    IN  IF k \notin CacheKeys THEN sinceWrite
        ELSE IF IsWrite(entry) /\ entry.status \in {200, 201, 204}
        THEN [sinceWrite EXCEPT ![k] = IF entry.cacheOk THEN "written" ELSE "none"]
        ELSE IF IsCachedRead(entry) /\ entry.status = 200
        THEN [sinceWrite EXCEPT ![k] =
                IF entry.cacheOk /\ @ = "written" THEN "read1" ELSE "none"]
        ELSE sinceWrite

\* res.status(...).json(...): the handler ends, the response is recorded
Respond(r, entry) ==
    /\ resp' = entry
    /\ prev' = resp
    /\ req' = [req EXCEPT ![r] = Idle]
    /\ sinceWrite' = Observe(entry)
    /\ UNCHANGED <<wallClock, redis, evalIn, evalOut>>

\* the handler goes on to its next await
Goto(r, next) ==
    /\ req' = next
    /\ UNCHANGED <<resp, prev, sinceWrite, wallClock, redis, evalIn, evalOut>>

(***************************************************************************)
(* GET /features  (features.routes.ts router.get)                          *)
(***************************************************************************)
ReadEntry(t, e, page, limit, filter, status, source, payload, cacheOk) ==
    [op |-> "read", tenantId |-> t, env |-> e, page |-> page, limit |-> limit,
     filter |-> filter, status |-> status, source |-> source, body |-> payload,
     cacheOk |-> cacheOk,
     seen |-> IF createCacheKey(t, e) \in CacheKeys
              THEN sinceWrite[createCacheKey(t, e)] ELSE "none"]

ReadResponse(r, status, source, payload, cacheOk) ==
    ReadEntry(req[r].tenantId, req[r].env, req[r].page, req[r].limit,
              req[r].filter, status, source, payload, cacheOk)

CachedShape(r) == req[r].page = 1 /\ req[r].filter = NoFilter

\* a plausible slip: only a missing env is rejected
StartRead_missingOnly(r, t, e, page, limit, filter) ==
    /\ req[r].pc = "idle"
    /\ ops' = ops + 1
    /\ IF e = NoEnv
       THEN Respond(r, ReadEntry(t, e, page, limit, filter, 400, "none", NoEntry, TRUE))
       ELSE Goto(r, [req EXCEPT ![r] =
                [pc |-> IF page = 1 /\ filter = NoFilter THEN "r_cache" ELSE "r_db",
                 op |-> "read", tenantId |-> t, env |-> e, page |-> page,
                 limit |-> limit, filter |-> filter, cacheOk |-> TRUE,
                 payload |-> NoEntry, asOf |-> 0]])
    /\ UNCHANGED <<flags, nextId, clock, lastWrite, cache, audit, lastInval>>

StartRead(r, t, e, page, limit, filter) ==
    /\ req[r].pc = "idle"
    /\ ops' = ops + 1
    /\ IF e \notin Environment
       THEN Respond(r, ReadEntry(t, e, page, limit, filter, 400, "none", NoEntry, TRUE))
       ELSE Goto(r, [req EXCEPT ![r] =
                [pc |-> IF page = 1 /\ filter = NoFilter THEN "r_cache" ELSE "r_db",
                 op |-> "read", tenantId |-> t, env |-> e, page |-> page,
                 limit |-> limit, filter |-> filter, cacheOk |-> TRUE,
                 payload |-> NoEntry, asOf |-> 0]])
    /\ UNCHANGED <<flags, nextId, clock, lastWrite, cache, audit, lastInval>>

\* a plausible slip: a Redis error of the lookup ends the request with 500
ReadCacheGet_propagates(r) ==
    /\ req[r].pc = "r_cache"
    /\ \E ok \in BOOLEAN :
        LET got == IF ok THEN cache[Key(r)] ELSE NoEntry
        IN  IF ~ok
            THEN Respond(r, ReadResponse(r, 500, "none", NoEntry, FALSE))
            ELSE IF got # NoEntry
            THEN Respond(r, ReadResponse(r, 200, "cache", got.payload, TRUE))
            ELSE Goto(r, [req EXCEPT ![r].pc = "r_db", ![r].cacheOk = ok])
    /\ UNCHANGED <<flags, nextId, clock, lastWrite, cache, audit, lastInval, ops>>

\* a plausible slip: the items of a cached page are evaluated again
ReadCacheGet_reEvaluates(r) ==
    /\ req[r].pc = "r_cache"
    /\ \E ok \in BOOLEAN :
        LET got == IF ok THEN cache[Key(r)] ELSE NoEntry
        IN  IF got # NoEntry
            THEN \E b \in BOOLEAN :
                   Respond(r, ReadResponse(r, 200, "cache",
                       [got.payload EXCEPT !.data =
                           [i \in DOMAIN @ |-> [@[i] EXCEPT !.enabled = b]]], TRUE))
            ELSE Goto(r, [req EXCEPT ![r].pc = "r_db", ![r].cacheOk = ok])
    /\ UNCHANGED <<flags, nextId, clock, lastWrite, cache, audit, lastInval, ops>>

\* getFromCache: a Redis error is logged and read as null
ReadCacheGet(r) ==
    /\ req[r].pc = "r_cache"
    /\ \E ok \in BOOLEAN :
        LET got == IF ok THEN cache[Key(r)] ELSE NoEntry
        IN  IF got # NoEntry
            THEN Respond(r, ReadResponse(r, 200, "cache", got.payload, TRUE))
            ELSE Goto(r, [req EXCEPT ![r].pc = "r_db", ![r].cacheOk = ok])
    /\ UNCHANGED <<flags, nextId, clock, lastWrite, cache, audit, lastInval, ops>>

\* prisma.$transaction([findMany, count]) and the evaluation of the rows
ReadDb(r) ==
    /\ req[r].pc = "r_db"
    /\ \/ Respond(r, ReadResponse(r, 500, "none", NoEntry, req[r].cacheOk))
       \/ LET all == ReadWhere(flags, req[r].tenantId, req[r].env, req[r].filter)
              skip == (req[r].page - 1) * req[r].limit
          IN  \E order \in Orderings(all) :
              \E decide \in [all -> BOOLEAN] :
                /\ \A x \in all : decide[x] \in Decisions(x)
                /\ LET rows == SubSeq(order, skip + 1,
                                      Min(skip + req[r].limit, Cardinality(all)))
                       payload == ResponsePayload(rows, decide, Cardinality(all),
                                                  req[r].page, req[r].limit)
                   IN  IF CachedShape(r)
                       THEN Goto(r, [req EXCEPT ![r].pc = "r_set",
                                                ![r].payload = payload,
                                                ![r].asOf = clock])
                       ELSE Respond(r, ReadResponse(r, 200, "database", payload,
                                                    req[r].cacheOk))
    /\ UNCHANGED <<flags, nextId, clock, lastWrite, cache, audit, lastInval, ops>>

\* a plausible slip: the TTL is given in the wrong unit and lasts twice as long
setInCache_doubleTtl(c, k, value, asOf, at) ==
    [c EXCEPT ![k] = [present |-> TRUE, payload |-> value, asOf |-> asOf,
                      expiresAt |-> at + 2 * CACHE_TTL]]

\* redisClient.set(key, JSON.stringify(value), {EX: CACHE_TTL}) at second `at`:
\* whatever the key held is replaced and the TTL starts anew
setInCache(c, k, value, asOf, at) ==
    [c EXCEPT ![k] = [present |-> TRUE, payload |-> value, asOf |-> asOf,
                      expiresAt |-> at + CACHE_TTL]]

\* setInCache: SET key value EX CACHE_TTL; a Redis error is logged and dropped
ReadCacheSet(r) ==
    /\ req[r].pc = "r_set"
    /\ \E ok \in BOOLEAN :
        /\ cache' = IF ok
                    THEN setInCache(cache, Key(r), req[r].payload, req[r].asOf,
                                    wallClock)
                    ELSE cache
        /\ Respond(r, ReadResponse(r, 200, "database", req[r].payload,
                                   req[r].cacheOk /\ ok))
    /\ UNCHANGED <<flags, nextId, clock, lastWrite, audit, lastInval, ops>>

\* Redis drops an entry when its TTL (EX CACHE_TTL) has elapsed
Expire(k) ==
    /\ cache[k] # NoEntry
    /\ ops' = ops + 1
    /\ cache' = [cache EXCEPT ![k] = NoEntry]
    /\ sinceWrite' = [sinceWrite EXCEPT ![k] = "none"]
    /\ UNCHANGED <<flags, nextId, clock, lastWrite, audit, req, resp, prev,
                   lastInval, wallClock, redis, evalIn, evalOut>>

(***************************************************************************)
(* The audit recorder (audit.service.ts createAuditLog).                   *)
(***************************************************************************)
FlagRef(id) == [flagId |-> id]
EnvRef(e) == [envName |-> e]

AuditEntry(t, action, entity, entityId, diff) ==
    [tenantId |-> t, actor |-> t, action |-> action, entity |-> entity,
     entityId |-> entityId, diff |-> diff]

\* a plausible slip: the log keeps the newest entry only
createAuditLog_overwrites(log, entry, ok) == IF ok THEN <<entry>> ELSE log

\* auditLog.create inside try/catch: a failure is logged and swallowed
createAuditLog(log, entry, ok) == IF ok THEN Append(log, entry) ELSE log

\* a plausible slip: the whole cache is flushed
deleteFromCache_flushes(c, k, ok) == IF ok THEN [x \in DOMAIN c |-> NoEntry] ELSE c

\* deleteFromCache: DEL key; a Redis error is logged and dropped
deleteFromCache(c, k, ok) == IF ok THEN [c EXCEPT ![k] = NoEntry] ELSE c

\* the writer of the commit made at clock `at` has run its DEL on k
NoteInval(k, ok, at) ==
    IF ok /\ at > lastInval[k] THEN [lastInval EXCEPT ![k] = at] ELSE lastInval

Step(r, call, k) == Append(req[r].steps, [call |-> call, key |-> k])

\* the call recorded for createAuditLog: the append worked, or failed and was swallowed
AuditCall(ok) == IF ok THEN "audit" ELSE "auditFailed"

(***************************************************************************)
(* POST /features  (features.routes.ts router.post)                        *)
(***************************************************************************)
WriteResponse(r, op, status, body, cacheOk, steps) ==
    [op |-> op, tenantId |-> req[r].tenantId, env |-> req[r].env,
     ref |-> IF op = "delete" THEN FlagRef(req[r].id) ELSE FlagRef(req[r].featureId),
     status |-> status, body |-> body, cacheOk |-> cacheOk, steps |-> steps]

\* data = {..., strategyValue: strategyValue || Prisma.JsonNull}
UpsertData(enabled, strategy, strategyValue) ==
    [enabled |-> enabled, strategy |-> strategy,
     strategyValue |-> JsOr(strategyValue, JNull)]

\* !featureId || !env || typeof enabled !== 'boolean' || !strategy
UpsertValid(f, e, enabled, strategy) ==
    f # Missing /\ e # NoEnv /\ enabled.t = "bool" /\ strategy # Missing

\* res.status(400).json({error: 'Missing required fields: ...'})
UpsertRejected(t, f, e) ==
    [op |-> "upsert", tenantId |-> t, env |-> e, ref |-> FlagRef(f),
     status |-> 400, body |-> NoFlag, cacheOk |-> TRUE, steps |-> <<>>]

\* the body's enabled is a JSON value: a boolean, or undefined when missing
StartUpsert(r, t, f, e, enabled, strategy, strategyValue) ==
    /\ req[r].pc = "idle"
    /\ ops' = ops + 1
    /\ IF ~UpsertValid(f, e, enabled, strategy)
       THEN Respond(r, UpsertRejected(t, f, e))
       ELSE Goto(r, [req EXCEPT ![r] =
              [pc |-> "u_find", op |-> "upsert", tenantId |-> t, featureId |-> f,
               env |-> e, data |-> UpsertData(enabled.b, strategy, strategyValue),
               strategyValue |-> strategyValue,
               existingFlag |-> NoFlag, upsertedFlag |-> NoFlag, at |-> 0,
               replaced |-> NoFlag, steps |-> <<>>]])
    /\ UNCHANGED <<flags, nextId, clock, lastWrite, cache, audit, lastInval>>

\* existingFlag = await prisma.featureFlag.findUnique(...): the client throws a
\* PrismaClientValidationError for an env that is no value of the enum; the catch
\* block knows P2002 only and answers 500
UpsertFind(r) ==
    /\ req[r].pc = "u_find"
    /\ IF req[r].env \notin Environment
       THEN Respond(r, WriteResponse(r, "upsert", 500, NoFlag, TRUE,
                                     Step(r, "invalidArgument", Key(r))))
       ELSE \/ Respond(r, WriteResponse(r, "upsert", 500, NoFlag, TRUE,
                                        Step(r, "dbError", Key(r))))
            \/ Goto(r, [req EXCEPT ![r].pc = "u_write",
                    ![r].existingFlag =
                        FindUnique(flags, req[r].tenantId, req[r].featureId,
                                   req[r].env)])
    /\ UNCHANGED <<flags, nextId, clock, lastWrite, cache, audit, lastInval, ops>>

\* a plausible slip: the audit entry is written before the upsert is awaited, so
\* a failed upsert leaves it behind
UpsertWrite_auditsFirst(r) ==
    /\ req[r].pc = "u_write"
    /\ \/ /\ Respond(r, WriteResponse(r, "upsert", 500, NoFlag, TRUE,
                                      Step(r, "dbError", Key(r))))
          /\ audit' = createAuditLog(audit,
                        AuditEntry(req[r].tenantId, "CREATE", "FeatureFlag",
                                   FlagRef(req[r].featureId),
                                   [before |-> NoFlag, after |-> req[r].data]),
                        TRUE)
          /\ UNCHANGED <<flags, nextId, clock, lastWrite>>
       \/ /\ req[r].featureId \notin Features
          /\ Respond(r, WriteResponse(r, "upsert", 500, NoFlag, TRUE,
                                      Step(r, "P2003", Key(r))))
          /\ UNCHANGED <<flags, nextId, clock, lastWrite, audit>>
       \/ /\ req[r].featureId \in Features
          /\ LET t == req[r].tenantId
                 f == req[r].featureId
                 e == req[r].env
                 now == clock + 1
                 store == DbUpsert(flags, nextId, now, t, f, e, req[r].data)
             IN  /\ flags' = store
                 /\ nextId' = IdAfterUpsert(flags, nextId, t, f, e)
                 /\ clock' = now
                 /\ lastWrite' = [lastWrite EXCEPT ![Key(r)] = now]
                 /\ Goto(r, [req EXCEPT ![r].pc = "u_audit", ![r].at = now,
                               ![r].replaced = FindUnique(flags, t, f, e),
                               ![r].upsertedFlag = FindUnique(store, t, f, e),
                               ![r].steps = Step(r, "commit", Key(r))])
          /\ UNCHANGED audit
    /\ UNCHANGED <<cache, lastInval, ops>>

\* upsertedFlag = await prisma.featureFlag.upsert(...): the insert of a row whose
\* featureId has no Feature row violates the foreign key (P2003); the catch block
\* knows P2002 only and answers 500
UpsertWrite(r) ==
    /\ req[r].pc = "u_write"
    /\ \/ /\ Respond(r, WriteResponse(r, "upsert", 500, NoFlag, TRUE,
                                      Step(r, "dbError", Key(r))))
          /\ UNCHANGED <<flags, nextId, clock, lastWrite>>
       \/ /\ req[r].featureId \notin Features
          /\ Respond(r, WriteResponse(r, "upsert", 500, NoFlag, TRUE,
                                      Step(r, "P2003", Key(r))))
          /\ UNCHANGED <<flags, nextId, clock, lastWrite>>
       \/ /\ req[r].featureId \in Features
          /\ LET t == req[r].tenantId
                 f == req[r].featureId
                 e == req[r].env
                 now == clock + 1
                 store == DbUpsert(flags, nextId, now, t, f, e, req[r].data)
             IN  /\ flags' = store
                 /\ nextId' = IdAfterUpsert(flags, nextId, t, f, e)
                 /\ clock' = now
                 /\ lastWrite' = [lastWrite EXCEPT ![Key(r)] = now]
                 /\ Goto(r, [req EXCEPT ![r].pc = "u_audit", ![r].at = now,
                               ![r].replaced = FindUnique(flags, t, f, e),
                               ![r].upsertedFlag = FindUnique(store, t, f, e),
                               ![r].steps = Step(r, "commit", Key(r))])
    /\ UNCHANGED <<cache, audit, lastInval, ops>>

\* a plausible slip: the action does not look at existingFlag
UpsertAudit_alwaysCreate(r) ==
    /\ req[r].pc = "u_audit"
    /\ \E ok \in BOOLEAN :
        /\ audit' = createAuditLog(audit,
                    AuditEntry(req[r].tenantId, "CREATE", "FeatureFlag",
                               FlagRef(req[r].upsertedFlag.id),
                               [before |-> req[r].existingFlag,
                                after |-> req[r].upsertedFlag]),
                    ok)
        /\ Goto(r, [req EXCEPT ![r].pc = "u_inval",
                               ![r].steps = Step(r, AuditCall(ok), Key(r))])
    /\ UNCHANGED <<flags, nextId, clock, lastWrite, cache, lastInval, ops>>

\* a plausible slip: a failed audit append ends the request with 500
UpsertAudit_propagates(r) ==
    /\ req[r].pc = "u_audit"
    /\ \/ /\ audit' = createAuditLog(audit,
                    AuditEntry(req[r].tenantId,
                               IF req[r].existingFlag # NoFlag THEN "UPDATE" ELSE "CREATE",
                               "FeatureFlag", FlagRef(req[r].upsertedFlag.id),
                               [before |-> req[r].existingFlag,
                                after |-> req[r].upsertedFlag]),
                    TRUE)
          /\ Goto(r, [req EXCEPT ![r].pc = "u_inval",
                                 ![r].steps = Step(r, AuditCall(TRUE), Key(r))])
       \/ /\ audit' = audit
          /\ Respond(r, WriteResponse(r, "upsert", 500, NoFlag, TRUE,
                                      Step(r, AuditCall(FALSE), Key(r))))
    /\ UNCHANGED <<flags, nextId, clock, lastWrite, cache, lastInval, ops>>

\* await createAuditLog({action: existingFlag ? 'UPDATE' : 'CREATE', ...})
UpsertAudit(r) ==
    /\ req[r].pc = "u_audit"
    /\ \E ok \in BOOLEAN :
        /\ audit' = createAuditLog(audit,
                    AuditEntry(req[r].tenantId,
                               IF req[r].existingFlag # NoFlag THEN "UPDATE" ELSE "CREATE",
                               "FeatureFlag", FlagRef(req[r].upsertedFlag.id),
                               [before |-> req[r].existingFlag,
                                after |-> req[r].upsertedFlag]),
                    ok)
        /\ Goto(r, [req EXCEPT ![r].pc = "u_inval",
                               ![r].steps = Step(r, AuditCall(ok), Key(r))])
    /\ UNCHANGED <<flags, nextId, clock, lastWrite, cache, lastInval, ops>>

\* a plausible slip: the 201 is sent without the cache invalidation
UpsertInvalidate_skipped(r) ==
    /\ req[r].pc = "u_inval"
    /\ Respond(r, WriteResponse(r, "upsert", 201, req[r].upsertedFlag, TRUE,
                                req[r].steps))
    /\ UNCHANGED <<flags, nextId, clock, lastWrite, cache, audit, lastInval, ops>>

\* await deleteFromCache(createCacheKey(tenantId, environment)); res.status(201)
UpsertInvalidate(r) ==
    /\ req[r].pc = "u_inval"
    /\ \E ok \in BOOLEAN :
        /\ cache' = deleteFromCache(cache, Key(r), ok)
        /\ lastInval' = NoteInval(Key(r), ok, req[r].at)
        /\ Respond(r, WriteResponse(r, "upsert", 201, req[r].upsertedFlag, ok,
                                    Step(r, "del", Key(r))))
    /\ UNCHANGED <<flags, nextId, clock, lastWrite, audit, ops>>

(***************************************************************************)
(* DELETE /features/:id  (features.routes.ts router.delete)                *)
(***************************************************************************)
\* a plausible slip: the row is looked up by id alone
FindById_anyTenant(store, id, t) ==
    LET hit == {x \in store : x.id = id}
    IN  IF hit = {} THEN NoFlag ELSE CHOOSE x \in hit : TRUE

\* featureFlag.findUnique({where: {id, tenantId}})
FindById(store, id, t) ==
    LET hit == {x \in store : x.id = id /\ x.tenantId = t}
    IN  IF hit = {} THEN NoFlag ELSE CHOOSE x \in hit : TRUE

StartDelete(r, t, id) ==
    /\ req[r].pc = "idle"
    /\ ops' = ops + 1
    /\ Goto(r, [req EXCEPT ![r] =
          [pc |-> "d_find", op |-> "delete", tenantId |-> t, id |-> id,
           env |-> "none", flagToDelete |-> NoFlag, at |-> 0, removed |-> NoFlag,
           steps |-> <<>>]])
    /\ UNCHANGED <<flags, nextId, clock, lastWrite, cache, audit, lastInval>>

DeleteFind(r) ==
    /\ req[r].pc = "d_find"
    /\ \/ Respond(r, WriteResponse(r, "delete", 500, NoFlag, TRUE,
                                    Step(r, "dbError", Key(r))))
       \/ LET found == FindById(flags, req[r].id, req[r].tenantId)
          IN  IF found = NoFlag
              THEN Respond(r, WriteResponse(r, "delete", 404, NoFlag, TRUE,
                                            req[r].steps))
              ELSE Goto(r, [req EXCEPT ![r].pc = "d_audit", ![r].env = found.env,
                                       ![r].flagToDelete = found])
    /\ UNCHANGED <<flags, nextId, clock, lastWrite, cache, audit, lastInval, ops>>

\* "Log *before* deleting"
DeleteAudit(r) ==
    /\ req[r].pc = "d_audit"
    /\ \E ok \in BOOLEAN :
        /\ audit' = createAuditLog(audit,
                    AuditEntry(req[r].tenantId, "DELETE", "FeatureFlag",
                               FlagRef(req[r].flagToDelete.id),
                               [before |-> req[r].flagToDelete, after |-> NoFlag]),
                    ok)
        /\ Goto(r, [req EXCEPT ![r].pc = "d_delete",
                               ![r].steps = Step(r, AuditCall(ok), Key(r))])
    /\ UNCHANGED <<flags, nextId, clock, lastWrite, cache, lastInval, ops>>

\* await prisma.featureFlag.delete({where: {id}}): throws when no row has the id
DeleteDb(r) ==
    /\ req[r].pc = "d_delete"
    /\ IF \E x \in flags : x.id = req[r].id
       THEN \/ /\ Respond(r, WriteResponse(r, "delete", 500, NoFlag, TRUE,
                                           Step(r, "dbError", Key(r))))
               /\ UNCHANGED <<flags, clock, lastWrite>>
            \/ /\ flags' = {x \in flags : x.id # req[r].id}
               /\ clock' = clock + 1
               /\ lastWrite' = [lastWrite EXCEPT ![Key(r)] = clock + 1]
               /\ Goto(r, [req EXCEPT ![r].pc = "d_inval", ![r].at = clock + 1,
                             ![r].removed = CHOOSE x \in flags : x.id = req[r].id,
                             ![r].steps = Step(r, "commit", Key(r))])
       ELSE /\ Respond(r, WriteResponse(r, "delete", 500, NoFlag, TRUE,
                                        Step(r, "dbError", Key(r))))
            /\ UNCHANGED <<flags, clock, lastWrite>>
    /\ UNCHANGED <<nextId, cache, audit, lastInval, ops>>

DeleteInvalidate(r) ==
    /\ req[r].pc = "d_inval"
    /\ \E ok \in BOOLEAN :
        /\ cache' = deleteFromCache(cache, Key(r), ok)
        /\ lastInval' = NoteInval(Key(r), ok, req[r].at)
        /\ Respond(r, WriteResponse(r, "delete", 204, req[r].flagToDelete, ok,
                                    Step(r, "del", Key(r))))
    /\ UNCHANGED <<flags, nextId, clock, lastWrite, audit, ops>>

(***************************************************************************)
(* POST /promote  (promotion.routes.ts router.post)                        *)
(***************************************************************************)
PromoteEntry(t, sourceEnv, targetEnv, status, body, cacheOk, steps, found, before, failedAt) ==
    [op |-> "promote", tenantId |-> t, env |-> targetEnv, sourceEnv |-> sourceEnv,
     status |-> status, body |-> body, cacheOk |-> cacheOk, steps |-> steps,
     sourceFlags |-> found, targetBefore |-> before,
     failedAt |-> failedAt]

PromoteResponse(r, status, body, steps, failedAt) ==
    PromoteEntry(req[r].tenantId, req[r].sourceEnv, req[r].env, status, body,
                 req[r].cacheOk, steps, req[r].sourceFlags, req[r].targetBefore,
                 failedAt)

\* a plausible slip: the baseline is not carried over
DerivedUpsert_dropsEnabled(flag, targetEnv) ==
    [tenantId |-> flag.tenantId, featureId |-> flag.featureId, env |-> targetEnv,
     enabled |-> FALSE, strategy |-> flag.strategy,
     strategyValue |-> flag.strategyValue]

\* one element of upsertOperations: id, createdAt, updatedAt and env are dropped,
\* commonData = {enabled, strategy, strategyValue (null as Prisma.JsonNull)}
DerivedUpsert(flag, targetEnv) ==
    [tenantId |-> flag.tenantId, featureId |-> flag.featureId, env |-> targetEnv,
     enabled |-> flag.enabled, strategy |-> flag.strategy,
     strategyValue |-> IF flag.strategyValue = JNull THEN JNull
                       ELSE flag.strategyValue]

\* a plausible slip: equal environments are let through
PromoteValid_allowsSame(sourceEnv, targetEnv) ==
    /\ sourceEnv # NoEnv
    /\ targetEnv # NoEnv
    /\ sourceEnv \in Environment
    /\ targetEnv \in Environment

\* "1. Validation": !sourceEnv || !targetEnv || sourceEnv === targetEnv || ...
PromoteValid(sourceEnv, targetEnv) ==
    /\ sourceEnv # NoEnv
    /\ targetEnv # NoEnv
    /\ sourceEnv # targetEnv
    /\ sourceEnv \in Environment
    /\ targetEnv \in Environment

StartPromote(r, t, sourceEnv, targetEnv) ==
    /\ req[r].pc = "idle"
    /\ ops' = ops + 1
    /\ IF ~PromoteValid(sourceEnv, targetEnv)
       THEN Respond(r, PromoteEntry(t, sourceEnv, targetEnv, 400, NoFlag, TRUE,
                                    <<>>, <<>>, {}, 0))
       ELSE Goto(r, [req EXCEPT ![r] =
                [pc |-> "p_read", op |-> "promote", tenantId |-> t,
                 sourceEnv |-> sourceEnv, env |-> targetEnv, sourceFlags |-> <<>>,
                 txw |-> <<>>, at |-> 0, cacheOk |-> TRUE, steps |-> <<>>,
                 targetBefore |-> FindMany(flags, t, targetEnv)]])
    /\ UNCHANGED <<flags, nextId, clock, lastWrite, cache, audit, lastInval>>

\* a plausible slip: an empty source is promoted like any other
PromoteRead_emptyPromotes(r) ==
    /\ req[r].pc = "p_read"
    /\ \/ Respond(r, PromoteResponse(r, 500, NoFlag, Step(r, "dbError", Key(r)), 0))
       \/ LET found == FindMany(flags, req[r].tenantId, req[r].sourceEnv)
          IN  \E order \in Orderings(found) :
                Goto(r, [req EXCEPT ![r].pc = "p_tx", ![r].sourceFlags = order])
    /\ UNCHANGED <<flags, nextId, clock, lastWrite, cache, audit, lastInval, ops>>

\* sourceFlags = await prisma.featureFlag.findMany({where: {tenantId, env: sourceEnv}})
PromoteRead(r) ==
    /\ req[r].pc = "p_read"
    /\ \/ Respond(r, PromoteResponse(r, 500, NoFlag, Step(r, "dbError", Key(r)), 0))
       \/ LET found == FindMany(flags, req[r].tenantId, req[r].sourceEnv)
          IN  IF found = {}
              THEN Respond(r, PromoteResponse(r, 404, NoFlag, req[r].steps, 0))
              ELSE \E order \in Orderings(found) :
                     Goto(r, [req EXCEPT ![r].pc = "p_tx", ![r].sourceFlags = order])
    /\ UNCHANGED <<flags, nextId, clock, lastWrite, cache, audit, lastInval, ops>>

\* a plausible slip: each upsert of the transaction reads its source row again
PromoteTxUpsert_readsAgain(r) ==
    /\ req[r].pc = "p_tx"
    /\ Len(req[r].txw) < Len(req[r].sourceFlags)
    /\ \/ LET end == TransactionAbort(flags, nextId, clock + 1, req[r].txw)
          IN  /\ flags' = end.store
              /\ nextId' = end.nextId
              /\ Respond(r, PromoteResponse(r, 500, NoFlag, req[r].steps,
                                            Len(req[r].txw) + 1))
       \/ /\ LET src == req[r].sourceFlags[Len(req[r].txw) + 1]
                 cur == FindUnique(flags, src.tenantId, src.featureId, src.env)
             IN  Goto(r, [req EXCEPT ![r].txw =
                    Append(@, DerivedUpsert(IF cur = NoFlag THEN src ELSE cur,
                                            req[r].env))])
          /\ UNCHANGED <<flags, nextId>>
    /\ UNCHANGED <<clock, lastWrite, cache, audit, lastInval, ops>>

\* a plausible slip: the target's entry is deleted in a finally block, also after
\* a rollback
PromoteTxUpsert_invalidatesAnyway(r) ==
    /\ req[r].pc = "p_tx"
    /\ Len(req[r].txw) < Len(req[r].sourceFlags)
    /\ \/ LET end == TransactionAbort(flags, nextId, clock + 1, req[r].txw)
          IN  /\ flags' = end.store
              /\ nextId' = end.nextId
              /\ cache' = deleteFromCache(cache, Key(r), TRUE)
              /\ Respond(r, PromoteResponse(r, 500, NoFlag, req[r].steps,
                                            Len(req[r].txw) + 1))
       \/ /\ Goto(r, [req EXCEPT ![r].txw =
                Append(@, DerivedUpsert(req[r].sourceFlags[Len(req[r].txw) + 1],
                                        req[r].env))])
          /\ UNCHANGED <<flags, nextId, cache>>
    /\ UNCHANGED <<clock, lastWrite, audit, lastInval, ops>>

\* prisma.$transaction(upsertOperations): the next upsert of the transaction runs,
\* or fails and the transaction is rolled back
PromoteTxUpsert(r) ==
    /\ req[r].pc = "p_tx"
    /\ Len(req[r].txw) < Len(req[r].sourceFlags)
    /\ \/ LET end == TransactionAbort(flags, nextId, clock + 1, req[r].txw)
          IN  /\ flags' = end.store
              /\ nextId' = end.nextId
              /\ Respond(r, PromoteResponse(r, 500, NoFlag, req[r].steps,
                                            Len(req[r].txw) + 1))
       \/ /\ Goto(r, [req EXCEPT ![r].txw =
                Append(@, DerivedUpsert(req[r].sourceFlags[Len(req[r].txw) + 1],
                                        req[r].env))])
          /\ UNCHANGED <<flags, nextId>>
    /\ UNCHANGED <<clock, lastWrite, cache, audit, lastInval, ops>>

\* prisma.$transaction(upsertOperations): COMMIT
PromoteCommit(r) ==
    /\ req[r].pc = "p_tx"
    /\ Len(req[r].txw) = Len(req[r].sourceFlags)
    /\ LET end == TransactionCommit(flags, nextId, clock + 1, req[r].txw)
       IN  /\ flags' = end.store
           /\ nextId' = end.nextId
    /\ clock' = clock + 1
    /\ lastWrite' = [lastWrite EXCEPT ![Key(r)] = clock + 1]
    /\ Goto(r, [req EXCEPT ![r].pc = "p_inval", ![r].at = clock + 1,
                  ![r].steps = Step(r, "commit", Key(r))])
    /\ UNCHANGED <<cache, audit, lastInval, ops>>

\* a plausible slip: the source environment's entry is deleted instead
PromoteInvalidate_sourceKey(r) ==
    /\ req[r].pc = "p_inval"
    /\ \E ok \in BOOLEAN :
        LET k == createCacheKey(req[r].tenantId, req[r].sourceEnv)
        IN  /\ cache' = deleteFromCache(cache, k, ok)
            /\ lastInval' = NoteInval(k, ok, req[r].at)
            /\ Goto(r, [req EXCEPT ![r].pc = "p_audit", ![r].cacheOk = ok,
                          ![r].steps = Step(r, "del", k)])
    /\ UNCHANGED <<flags, nextId, clock, lastWrite, audit, ops>>

\* a plausible slip: every entry of the tenant is deleted
PromoteInvalidate_wholeTenant(r) ==
    /\ req[r].pc = "p_inval"
    /\ \E ok \in BOOLEAN :
        /\ cache' = [k \in CacheKeys |->
                        IF ok /\ k[2] = req[r].tenantId THEN NoEntry ELSE cache[k]]
        /\ lastInval' = NoteInval(Key(r), ok, req[r].at)
        /\ Goto(r, [req EXCEPT ![r].pc = "p_audit", ![r].cacheOk = ok,
                      ![r].steps = Step(r, "del", Key(r))])
    /\ UNCHANGED <<flags, nextId, clock, lastWrite, audit, ops>>

\* "5. Invalidate the cache for the target environment"
PromoteInvalidate(r) ==
    /\ req[r].pc = "p_inval"
    /\ \E ok \in BOOLEAN :
        /\ cache' = deleteFromCache(cache, Key(r), ok)
        /\ lastInval' = NoteInval(Key(r), ok, req[r].at)
        /\ Goto(r, [req EXCEPT ![r].pc = "p_audit", ![r].cacheOk = ok,
                      ![r].steps = Step(r, "del", Key(r))])
    /\ UNCHANGED <<flags, nextId, clock, lastWrite, audit, ops>>

\* a plausible slip: promotedCount counts the rows of the target environment
PromoteAudit_countsTarget(r) ==
    /\ req[r].pc = "p_audit"
    /\ \E ok \in BOOLEAN :
        /\ audit' = createAuditLog(audit,
                    AuditEntry(req[r].tenantId, "PROMOTE", "Environment",
                               EnvRef(req[r].env),
                               [source |-> req[r].sourceEnv, target |-> req[r].env,
                                promotedCount |->
                                    Cardinality(FindMany(flags, req[r].tenantId,
                                                         req[r].env))]),
                    ok)
        /\ Respond(r, PromoteResponse(r, 200, [promotedCount |-> Len(req[r].txw)],
                                      Step(r, AuditCall(ok), Key(r)), 0))
    /\ UNCHANGED <<flags, nextId, clock, lastWrite, cache, lastInval, ops>>

\* "6. Create one high-level audit log for the promotion event"; res.status(200)
PromoteAudit(r) ==
    /\ req[r].pc = "p_audit"
    /\ \E ok \in BOOLEAN :
        /\ audit' = createAuditLog(audit,
                    AuditEntry(req[r].tenantId, "PROMOTE", "Environment",
                               EnvRef(req[r].env),
                               [source |-> req[r].sourceEnv, target |-> req[r].env,
                                promotedCount |-> Len(req[r].txw)]),
                    ok)
        /\ Respond(r, PromoteResponse(r, 200, [promotedCount |-> Len(req[r].txw)],
                                      Step(r, AuditCall(ok), Key(r)), 0))
    /\ UNCHANGED <<flags, nextId, clock, lastWrite, cache, lastInval, ops>>

(***************************************************************************)
(* Initial state: the database after the seed script, nothing cached, no   *)
(* audit entry, no request in flight.                                      *)
(***************************************************************************)
SeedFlags ==
    {NewRow(1, 0, "zebra", "f1", "prod", UpsertData(TRUE, "BOOLEAN", JUndef)),
     NewRow(2, 0, "zebra", "f2", "staging",
            UpsertData(TRUE, "PERCENTAGE", JObj(JNum(50)))),
     NewRow(3, 0, "acme", "f1", "prod", UpsertData(FALSE, "BOOLEAN", JUndef))}

InitService ==
    /\ flags = SeedFlags
    /\ nextId = Cardinality(SeedFlags) + 1
    /\ clock = 0
    /\ cache = [k \in CacheKeys |-> NoEntry]
    /\ audit = <<>>
    /\ req = [r \in Reqs |-> Idle]
    /\ resp = [op |-> "none", status |-> 0]
    /\ prev = [op |-> "none", status |-> 0]
    /\ ops = 0
    /\ sinceWrite = [k \in CacheKeys |-> "none"]
    /\ lastWrite = [k \in CacheKeys |-> 0]
    /\ lastInval = [k \in CacheKeys |-> 0]
    /\ wallClock = 0
    /\ redis = "answering"

Init ==
    /\ InitService
    /\ evalIn = NoFlag
    /\ evalOut = NoEval

(***************************************************************************)
(* The requests the clients send.                                          *)
(***************************************************************************)
\* (page, limit, filter) of a read: the default shape, a one-row page, its
\* second page, and a name filter
ReadShapes ==
    {<<1, 20, NoFilter>>, <<1, 1, NoFilter>>, <<2, 1, NoFilter>>,
     <<1, 20, <<"d", "a", "s", "h">>>>}

\* (enabled, strategy, strategyValue) of an upsert
UpsertBodies ==
    {<<TRUE, "BOOLEAN", JUndef>>, <<FALSE, "PERCENTAGE", JObj(JNum(100))>>}

\* the handler's awaits: any request in flight takes its next step
Continue(r) ==
    \/ ReadCacheGet(r) \/ ReadDb(r) \/ ReadCacheSet(r)
    \/ UpsertFind(r) \/ UpsertWrite(r) \/ UpsertAudit(r) \/ UpsertInvalidate(r)
    \/ DeleteFind(r) \/ DeleteAudit(r) \/ DeleteDb(r) \/ DeleteInvalidate(r)
    \/ PromoteRead(r) \/ PromoteTxUpsert(r) \/ PromoteCommit(r)
    \/ PromoteInvalidate(r) \/ PromoteAudit(r)

\* the (sourceEnv, targetEnv) pairs of the promotions sent: every valid pair,
\* equal environments, and an environment outside the enum or missing on either side
PromotePairs ==
    {<<s, g>> : s, g \in Environment}
        \cup {<<BadEnv, "prod">>, <<"staging", BadEnv>>,
              <<NoEnv, "prod">>, <<"staging", NoEnv>>}

\* one client at a time: a request is sent when the previous one was answered
SendOne(r) ==
    /\ AllIdle /\ ops < MaxOps
    /\ \/ \E e \in {"staging", "prod"}, s \in ReadShapes :
            StartRead(r, "zebra", e, s[1], s[2], s[3])
       \/ StartRead(r, "acme", "prod", 1, 20, NoFilter)
       \/ StartRead(r, "zebra", BadEnv, 1, 20, NoFilter)
       \/ \E f \in Features, e \in {"staging", "prod"}, b \in UpsertBodies :
            StartUpsert(r, "zebra", f, e, JBool(b[1]), b[2], b[3])
       \/ \E id \in 1 .. nextId : StartDelete(r, "zebra", id)
       \/ \E p \in PromotePairs : StartPromote(r, "zebra", p[1], p[2])

TtlElapses == \E k \in CacheKeys : ops < MaxOps /\ Expire(k)

Next ==
    \/ SendOne("r1")
    \/ Continue("r1")
    \/ TtlElapses

Spec == Init /\ [][Next]_vars

(***************************************************************************)
(* One client at a time, every request on zebra's prod page: reads of the  *)
(* page, upserts and deletes of its rows, promotions into it.              *)
(***************************************************************************)
SendKey(r) ==
    /\ AllIdle /\ ops < MaxKeyOps
    /\ \/ \E s \in {<<1, 20, NoFilter>>, <<1, 1, NoFilter>>} :
            StartRead(r, "zebra", "prod", s[1], s[2], s[3])
       \/ \E b \in UpsertBodies : StartUpsert(r, "zebra", "f2", "prod", JBool(b[1]), b[2], b[3])
       \/ StartDelete(r, "zebra", 1)
       \/ StartPromote(r, "zebra", "staging", "prod")

KeyTtlElapses == ops < MaxKeyOps /\ Expire(createCacheKey("zebra", "prod"))

NextKey ==
    \/ SendKey("r1")
    \/ Continue("r1")
    \/ KeyTtlElapses

SpecKey == Init /\ [][NextKey]_vars

(***************************************************************************)
(* Two clients at the same time on zebra's staging and prod rows.          *)
(***************************************************************************)
SendConc(r) ==
    /\ ops < MaxConcOps
    /\ \/ StartRead(r, "zebra", "prod", 1, 20, NoFilter)
       \/ \E b \in UpsertBodies : StartUpsert(r, "zebra", "f2", "prod", JBool(b[1]), b[2], b[3])
       \/ StartUpsert(r, "zebra", "f1", "staging", JBool(TRUE), "USER", JNull)
       \/ StartDelete(r, "zebra", 1)
       \/ StartPromote(r, "zebra", "staging", "prod")

ConcTtlElapses == ops < MaxConcOps /\ Expire(createCacheKey("zebra", "prod"))

NextConc ==
    \/ \E r \in Reqs : SendConc(r)
    \/ \E r \in Reqs : Continue(r)
    \/ ConcTtlElapses

SpecConc == Init /\ [][NextConc]_vars

(***************************************************************************)
(* Both tenants as clients, one request at a time: each reads its prod     *)
(* page, upserts a flag, deletes its own row and the other tenant's, and   *)
(* promotes prod into staging.                                             *)
(***************************************************************************)
\* requests in a behaviour of SpecTenants
MaxTenantOps == 2

SendTenant(r) ==
    /\ AllIdle /\ ops < MaxTenantOps
    /\ \E t \in Tenants :
        \/ StartRead(r, t, "prod", 1, 20, NoFilter)
        \/ StartUpsert(r, t, "f1", "prod", JBool(TRUE), "USER", JNull)
        \/ \E id \in {1, 3} : StartDelete(r, t, id)
        \/ StartPromote(r, t, "prod", "staging")

TenantTtlElapses ==
    \E t \in Tenants : ops < MaxTenantOps /\ Expire(createCacheKey(t, "prod"))

NextTenants ==
    \/ SendTenant("r1")
    \/ Continue("r1")
    \/ TenantTtlElapses

SpecTenants == Init /\ [][NextTenants]_vars

\* the fields by which the store query awaited at `pc` selects its rows (the
\* where clause; for auditLog.create the tenantId of the row it inserts)
QueryScope(pc) ==
    CASE pc = "r_db" -> {"tenantId", "env", "feature.name"}
      [] pc = "u_find" -> {"tenantId", "featureId", "env"}
      [] pc = "u_write" -> {"tenantId", "featureId", "env"}
      [] pc = "d_find" -> {"id", "tenantId"}
      [] pc = "d_delete" -> {"id"}
      [] pc = "p_read" -> {"tenantId", "env"}
      [] pc = "p_tx" -> {"tenantId", "featureId", "env"}
      [] pc \in {"u_audit", "d_audit", "p_audit"} -> {"tenantId"}
      [] OTHER -> {}

\* the awaits that are store queries
StorePcs ==
    {"r_db", "u_find", "u_write", "u_audit", "d_find", "d_audit", "d_delete",
     "p_read", "p_tx", "p_audit"}

(***************************************************************************)
(* One client at a time sending upserts with bodies of every kind: valid,  *)
(* with a field missing, with an environment outside the enum, with a      *)
(* featureId that names no feature; and reads of the pages they touch.     *)
(***************************************************************************)
\* requests in a behaviour of SpecInput
MaxInputOps == 2

\* (featureId, env, enabled, strategy) of the upserts sent
UpsertInputs ==
    {<<"f2", "prod", JBool(TRUE), "BOOLEAN">>,
     <<"f1", "prod", JBool(FALSE), "PERCENTAGE">>,
     <<UnknownFeature, "prod", JBool(TRUE), "BOOLEAN">>,
     <<"f2", BadEnv, JBool(TRUE), "BOOLEAN">>,
     <<Missing, "prod", JBool(TRUE), "BOOLEAN">>,
     <<"f2", NoEnv, JBool(TRUE), "BOOLEAN">>,
     <<"f2", "prod", JUndef, "BOOLEAN">>,
     <<"f2", "prod", JStr("true"), "BOOLEAN">>,
     <<"f2", "prod", JBool(TRUE), Missing>>}

SendInput(r) ==
    /\ AllIdle /\ ops < MaxInputOps
    /\ \/ \E e \in {"prod", BadEnv, NoEnv} : StartRead(r, "zebra", e, 1, 20, NoFilter)
       \/ \E u \in UpsertInputs :
            StartUpsert(r, "zebra", u[1], u[2], u[3], u[4], JObj(JNum(50)))

\* the awaits of the read and upsert handlers
ContinueInput(r) ==
    \/ ReadCacheGet(r) \/ ReadDb(r) \/ ReadCacheSet(r)
    \/ UpsertFind(r) \/ UpsertWrite(r) \/ UpsertAudit(r) \/ UpsertInvalidate(r)

NextInput ==
    \/ SendInput("r1")
    \/ ContinueInput("r1")

SpecInput == Init /\ [][NextInput]_vars

(***************************************************************************)
(* Time passing: one client reads zebra's prod page and upserts one of its *)
(* flags while the seconds go by and Redis drops the entries whose TTL has *)
(* run out.                                                                *)
(***************************************************************************)
\* requests in a behaviour of SpecTtl
MaxTtlOps == 3
\* seconds between two looks at the clock
TickSeconds == 20
\* the second after which the clock is followed only while something is cached
MaxTime == 40

TtlKey == createCacheKey("zebra", "prod")

\* an entry put with EX CACHE_TTL is gone once CACHE_TTL seconds have passed
Due(entry, at) == entry # NoEntry /\ entry.expiresAt <= at

\* TickSeconds go by; Redis no longer holds the entries whose TTL ran out
Tick ==
    /\ wallClock < MaxTime \/ \E k \in CacheKeys : cache[k] # NoEntry
    /\ wallClock' = wallClock + TickSeconds
    /\ cache' = [k \in CacheKeys |->
                    IF Due(cache[k], wallClock') THEN NoEntry ELSE cache[k]]
    /\ sinceWrite' = [k \in CacheKeys |->
                    IF Due(cache[k], wallClock') THEN "expired" ELSE sinceWrite[k]]
    /\ UNCHANGED <<flags, nextId, clock, lastWrite, audit, req, resp, prev, ops,
                   lastInval, redis, evalIn, evalOut>>

SendTtl(r) ==
    /\ AllIdle /\ ops < MaxTtlOps
    /\ \/ StartRead(r, "zebra", "prod", 1, 20, NoFilter)
       \/ StartUpsert(r, "zebra", "f2", "prod", JBool(TRUE), "BOOLEAN", JUndef)

NextTtl ==
    \/ SendTtl("r1")
    \/ ContinueInput("r1")
    \/ Tick

\* time does not stop
SpecTtl == Init /\ [][NextTtl]_vars /\ WF_vars(Tick)

(***************************************************************************)
(* One client at a time upserting zebra's flags with strategy values of    *)
(* every JSON kind: on f1/prod, whose seeded row holds no strategyValue,   *)
(* and on f2/staging, whose seeded row holds {percentage: 50}.             *)
(***************************************************************************)
\* requests in a behaviour of SpecValues
MaxValueOps == 2

\* req.body.strategyValue: absent, null, objects, and the falsy primitives
GivenStrategyValues ==
    {JUndef, JNull, JObj(JNum(50)), JObj(JNum(0)), JNum(0), JNum(5), JStr(""),
     JBool(FALSE), JBool(TRUE)}

SendValue(r) ==
    /\ AllIdle /\ ops < MaxValueOps
    /\ \E x \in {<<"f1", "prod">>, <<"f2", "staging">>}, v \in GivenStrategyValues :
          \E b \in {<<TRUE, "BOOLEAN">>, <<FALSE, "PERCENTAGE">>} :
            StartUpsert(r, "zebra", x[1], x[2], JBool(b[1]), b[2], v)

ContinueValue(r) ==
    UpsertFind(r) \/ UpsertWrite(r) \/ UpsertAudit(r) \/ UpsertInvalidate(r)

NextValues == SendValue("r1") \/ ContinueValue("r1")

SpecValues == Init /\ [][NextValues]_vars

(***************************************************************************)
(* A promotion of staging into prod while a second client upserts or       *)
(* deletes the source's row or reads the target's page, the two handlers   *)
(* interleaved at every await.                                             *)
(***************************************************************************)
\* requests in a behaviour of SpecSnapshot
MaxSnapshotOps == 2

SendSnapshot(r) ==
    /\ ops < MaxSnapshotOps
    /\ \/ StartPromote(r, "zebra", "staging", "prod")
       \/ StartRead(r, "zebra", "prod", 1, 20, NoFilter)
       \/ StartUpsert(r, "zebra", "f2", "staging", JBool(FALSE), "BOOLEAN", JUndef)
       \/ StartUpsert(r, "zebra", "f1", "staging", JBool(TRUE), "USER", JNull)
       \/ StartDelete(r, "zebra", 2)

NextSnapshot ==
    \/ \E r \in Reqs : SendSnapshot(r)
    \/ \E r \in Reqs : Continue(r)

SpecSnapshot == Init /\ [][NextSnapshot]_vars

(***************************************************************************)
(* A Redis that may stop answering.  The client is created with a url only *)
(* (no command timeout), so an awaited get, set or del is resumed when     *)
(* Redis answers or the connection reports an error, and not before.       *)
(***************************************************************************)
\* requests in a behaviour of SpecHang
MaxHangOps == 2

\* Redis stops answering: commands sent from now on get no reply and no error
RedisGoesSilent ==
    /\ redis = "answering"
    /\ redis' = "silent"
    /\ UNCHANGED <<flags, nextId, clock, lastWrite, cache, audit, req, resp, prev,
                   ops, sinceWrite, lastInval, wallClock, evalIn, evalOut>>

\* the awaits on Redis: resumed only by an answer (or an error) of Redis
CacheAwait(r) ==
    /\ redis = "answering"
    /\ \/ ReadCacheGet(r) \/ ReadCacheSet(r)
       \/ UpsertInvalidate(r) \/ DeleteInvalidate(r) \/ PromoteInvalidate(r)

\* the awaits on the store
StoreAwait(r) ==
    \/ ReadDb(r)
    \/ UpsertFind(r) \/ UpsertWrite(r) \/ UpsertAudit(r)
    \/ DeleteFind(r) \/ DeleteAudit(r) \/ DeleteDb(r)
    \/ PromoteRead(r) \/ PromoteTxUpsert(r) \/ PromoteCommit(r) \/ PromoteAudit(r)

SendHang(r) ==
    /\ AllIdle /\ ops < MaxHangOps
    /\ \/ StartRead(r, "zebra", "prod", 1, 20, NoFilter)
       \/ StartUpsert(r, "zebra", "f2", "prod", JBool(TRUE), "BOOLEAN", JUndef)
       \/ StartDelete(r, "zebra", 1)
       \/ StartPromote(r, "zebra", "staging", "prod")

NextHang ==
    \/ SendHang("r1")
    \/ CacheAwait("r1")
    \/ StoreAwait("r1")
    \/ RedisGoesSilent

\* the event loop resumes a handler whose awaited call has settled
SpecHang ==
    Init /\ [][NextHang]_vars /\ WF_vars(CacheAwait("r1") \/ StoreAwait("r1"))

(***************************************************************************)
(* The cache service on its own: pages are put under keys and keys are     *)
(* invalidated, in any order, each Redis call working or failing.          *)
(***************************************************************************)
\* calls in a behaviour of SpecInvalidate
MaxCacheCalls == 4

\* a page as setInCache receives it
EmptyPage == ResponsePayload(<<>>, <<>>, 0, 1, 20)

\* setInCache(key, page)
CachePut(k) ==
    /\ ops < MaxCacheCalls
    /\ ops' = ops + 1
    /\ cache' = setInCache(cache, k, EmptyPage, clock, wallClock)
    /\ resp' = [op |-> "put", key |-> k, cacheOk |-> TRUE, had |-> cache[k] # NoEntry]
    /\ prev' = resp
    /\ UNCHANGED <<flags, nextId, clock, lastWrite, audit, req, sinceWrite,
                   lastInval, wallClock, redis, evalIn, evalOut>>

\* deleteFromCache(key): returns normally whether or not DEL worked
CacheInvalidate(k) ==
    /\ ops < MaxCacheCalls
    /\ ops' = ops + 1
    /\ \E ok \in BOOLEAN :
        /\ cache' = deleteFromCache(cache, k, ok)
        /\ resp' = [op |-> "invalidate", key |-> k, cacheOk |-> ok,
                    had |-> cache[k] # NoEntry]
    /\ prev' = resp
    /\ UNCHANGED <<flags, nextId, clock, lastWrite, audit, req, sinceWrite,
                   lastInval, wallClock, redis, evalIn, evalOut>>

NextInvalidate ==
    \/ \E k \in CacheKeys : CachePut(k)
    \/ \E k \in CacheKeys : CacheInvalidate(k)

SpecInvalidate == Init /\ [][NextInvalidate]_vars

(***************************************************************************)
(* The evaluation of one flag record, for every record the table can hold. *)
(***************************************************************************)
\* strategyValue of the rows: null, objects with and without "percentage",
\* percentages in and out of range and of the wrong type, and non-objects
StrategyValues ==
    {JNull, JObj(JUndef), JObj(JNull), JObj(JNum(0)), JObj(JNum(1)), JObj(JNum(50)),
     JObj(JNum(99)), JObj(JNum(100)), JObj(JNum(150)), JObj(JNum(-5)),
     JObj(JStr("")), JObj(JStr("abc")), JObj(JStr("50")), JObj(JBool(TRUE)),
     JObj(JBool(FALSE)), JNum(50), JStr("50"), JBool(TRUE)}

EvalFlags ==
    {NewRow(1, 0, "zebra", "f1", "prod",
            [enabled |-> en, strategy |-> st, strategyValue |-> sv]) :
        en \in BOOLEAN, st \in EvaluationStrategy, sv \in StrategyValues}

InitEval ==
    /\ InitService
    /\ evalIn \in EvalFlags
    /\ evalOut = NoEval

\* one evaluation of evalIn: Math.random() is drawn, the decision is computed
Evaluate ==
    /\ \E sample \in Samples :
        evalOut' = [done |-> TRUE, sample |-> sample,
                    decision |-> EvaluateFlag(evalIn, sample)]
    /\ UNCHANGED <<svc, evalIn>>

NextEval == Evaluate

SpecEval == InitEval /\ [][NextEval]_vars

(***************************************************************************)
(* Properties.                                                             *)
(***************************************************************************)
Succeeded(entry) == entry.status \in {200, 201, 204}

\* the rows of a tenant's environment
RowsOf(t, e) == FindMany(flags, t, e)

\* the last response is the newest event: nothing ran since it was sent
JustAnswered(op) == AllIdle /\ resp.op = op

\* C1: promotion is atomic.  While the transaction of a promotion runs, and after
\* a promotion failed at any derived upsert k of its N, the rows of
\* (tenant, targetEnv) are exactly the rows that were there before the promotion:
\* no state shows some of the derived rows without the others.
C1_PromotionAtomic ==
    /\ \A r \in Reqs :
        req[r].pc = "p_tx" => RowsOf(req[r].tenantId, req[r].env) = req[r].targetBefore
    /\ (JustAnswered("promote") /\ resp.status = 500)
        => RowsOf(resp.tenantId, resp.env) = resp.targetBefore

\* a promotion of N = 2 rows failed at its second upsert, after the first succeeded
C1_Witness ==
    /\ JustAnswered("promote") /\ resp.status = 500
    /\ Len(resp.sourceFlags) = 2 /\ resp.failedAt = 2

\* C2: after a successful promotion every source row read has exactly one row in
\* (tenant, featureId, targetEnv), with the source's enabled, strategy and
\* strategyValue, and promotedCount is the number of source rows read.
C2_PromotionCopies ==
    (JustAnswered("promote") /\ resp.status = 200) =>
        /\ \A i \in DOMAIN resp.sourceFlags :
            LET s == resp.sourceFlags[i]
                hit == {x \in flags : /\ x.tenantId = resp.tenantId
                                      /\ x.featureId = s.featureId
                                      /\ x.env = resp.env}
            IN  /\ Cardinality(hit) = 1
                /\ \A x \in hit : /\ x.enabled = s.enabled
                                  /\ x.strategy = s.strategy
                                  /\ x.strategyValue = s.strategyValue
        /\ resp.body.promotedCount = Len(resp.sourceFlags)

\* a promotion of two rows succeeded: one target row existed before (updated),
\* the other did not (inserted), and an enabled row with a payload was copied
C2_Witness ==
    /\ JustAnswered("promote") /\ resp.status = 200
    /\ Len(resp.sourceFlags) = 2
    /\ Cardinality(resp.targetBefore) = 1
    /\ \E i \in DOMAIN resp.sourceFlags :
        /\ resp.sourceFlags[i].enabled
        /\ resp.sourceFlags[i].strategyValue = JObj(JNum(50))

\* C3: cache coherence, one request at a time.  After a successful upsert, delete
\* (or promotion) on (tenant, env) whose cache call worked, with no TTL expiry
\* since, the next successful page-1 unfiltered read of (tenant, env) reports
\* source = database, and the page-1 unfiltered read after that one reports
\* source = cache.
C3_CacheCoherence ==
    (resp.op = "read" /\ resp.status = 200 /\ IsCachedRead(resp) /\ resp.cacheOk) =>
        /\ resp.seen = "written" => resp.source = "database"
        /\ resp.seen = "read1" => resp.source = "cache"

\* the second read after a write was answered from the cache
C3_Witness ==
    /\ resp.op = "read" /\ resp.status = 200 /\ IsCachedRead(resp)
    /\ resp.seen = "read1" /\ resp.source = "cache"

\* among the calls a handler made: the commit, and after it the DEL of key k
InvalidatedAfterCommit(steps, k) ==
    \E i, j \in DOMAIN steps :
        /\ i < j
        /\ steps[i] = [call |-> "commit", key |-> k]
        /\ steps[j] = [call |-> "del", key |-> k]

\* C4: every upsert, delete and promotion that answers success has, before the
\* response, issued the DEL of the cache key of the affected (tenant, env) (the
\* target env of a promotion), and issued it after the store mutation committed.
C4_InvalidateBeforeSuccess ==
    (IsWrite(resp) /\ Succeeded(resp)) =>
        InvalidatedAfterCommit(resp.steps, createCacheKey(resp.tenantId, resp.env))

\* a promotion answered success
C4_Witness == resp.op = "promote" /\ resp.status = 200

\* C5 (as claimed): once the writer of the newest commit on a key has completed
\* its invalidation, no cache entry of that key holds data read before that commit.
C5_NoStaleEntryAfterInvalidation ==
    \A k \in CacheKeys :
        (lastWrite[k] > 0 /\ lastInval[k] = lastWrite[k] /\ cache[k] # NoEntry)
            => cache[k].asOf >= lastWrite[k]

SameTriple(x, y) ==
    x.tenantId = y.tenantId /\ x.featureId = y.featureId /\ x.env = y.env

\* C6: in every reachable state, under any interleaving of upserts, deletes and
\* promotions, at most one row exists per (tenant, feature, environment).
C6_NaturalKeyUnique == \A x, y \in flags : SameTriple(x, y) => x = y

\* two upserts of one triple are in flight together and both have written
C6_Witness ==
    \E r1, r2 \in Reqs :
        /\ r1 # r2
        /\ req[r1].pc \in {"u_audit", "u_inval"}
        /\ req[r2].pc \in {"u_audit", "u_inval"}
        /\ SameTriple(req[r1], req[r2])

\* C7: the kill switch dominates.  A row with enabled = false evaluates to false
\* for every strategy, every strategyValue and every sample.
C7_KillSwitch == (evalOut.done /\ ~evalIn.enabled) => ~evalOut.decision

\* a disabled PERCENTAGE row at 100 percent was evaluated
C7_Witness ==
    /\ evalOut.done /\ ~evalIn.enabled
    /\ evalIn.strategy = "PERCENTAGE" /\ evalIn.strategyValue = JObj(JNum(100))

\* C8: an enabled BOOLEAN row evaluates to true on every call, and an enabled
\* USER row evaluates like BOOLEAN: to true, whatever its strategyValue.
C8_BooleanAndUser ==
    (evalOut.done /\ evalIn.enabled /\ evalIn.strategy \in {"BOOLEAN", "USER"})
        => evalOut.decision

\* an enabled USER row that carries a percentage of 0 was evaluated
C8_Witness ==
    /\ evalOut.done /\ evalIn.enabled
    /\ evalIn.strategy = "USER" /\ evalIn.strategyValue = JObj(JNum(0))

\* C9: an enabled PERCENTAGE row with percentage 0 evaluates to false and one with
\* percentage 100 evaluates to true, for every sample in [0, 100).
C9_PercentageBoundaries ==
    (evalOut.done /\ evalIn.enabled /\ evalIn.strategy = "PERCENTAGE") =>
        /\ evalIn.strategyValue = JObj(JNum(0)) => ~evalOut.decision
        /\ evalIn.strategyValue = JObj(JNum(100)) => evalOut.decision

\* percentage 100 met the largest sample
C9_Witness ==
    /\ evalOut.done /\ evalIn.enabled /\ evalIn.strategy = "PERCENTAGE"
    /\ evalIn.strategyValue = JObj(JNum(100)) /\ evalOut.sample = 99

\* a percentage is valid when it is a number from 0 to 100
ValidPercentage(p) == p.t = "num" /\ p.n >= 0 /\ p.n <= 100

\* C10 (as claimed): an enabled PERCENTAGE row whose strategyValue is null, has no
\* percentage, or holds an invalid percentage evaluates to false on every call.
C10_InvalidPercentageIsZero ==
    (/\ evalOut.done /\ evalIn.enabled /\ evalIn.strategy = "PERCENTAGE"
     /\ ~ValidPercentage(JsPercentageOf(evalIn.strategyValue)))
        => ~evalOut.decision

\* the percentage of a row, as the evaluation reads it
PercentageOf(row) == JsOr(JsPercentageOf(row.strategyValue), JNum(0))

\* an enabled PERCENTAGE row with 0 < percentage < 100
PartialRollout(row) ==
    /\ row.enabled /\ row.strategy = "PERCENTAGE"
    /\ PercentageOf(row).t = "num"
    /\ PercentageOf(row).n > 0 /\ PercentageOf(row).n < 100

\* the rows a read in flight is about to evaluate
RowsToEvaluate(r) == ReadWhere(flags, req[r].tenantId, req[r].env, req[r].filter)

\* the decision a page carries for the row with this id, as a set (empty when the
\* page does not hold the row)
DecisionIn(payload, id) ==
    {payload.data[i].enabled : i \in {j \in DOMAIN payload.data : payload.data[j].id = id}}

\* C11: PERCENTAGE evaluation is not sticky.  Whenever a database-sourced read is
\* about to evaluate an enabled PERCENTAGE row with 0 < percentage < 100, both
\* decisions, true and false, are outcomes of that evaluation, whatever earlier
\* evaluations of the row answered.
C11_BothOutcomesPossible ==
    \A r \in Reqs :
        req[r].pc = "r_db" =>
            \A x \in RowsToEvaluate(r) : PartialRollout(x) => Decisions(x) = BOOLEAN

\* two database-sourced reads in a row evaluated the seeded 50% row: the first
\* answered true for it, the second decided false
C11_Witness ==
    /\ resp.op = "read" /\ resp.status = 200 /\ resp.source = "database"
    /\ DecisionIn(resp.body, 2) = {TRUE}
    /\ \E r \in Reqs :
        /\ req[r].pc = "r_set"
        /\ DecisionIn(req[r].payload, 2) = {FALSE}

\* the handler made this call
HasCall(steps, call) == \E i \in DOMAIN steps : steps[i].call = call

SameData(x, y) ==
    x.enabled = y.enabled /\ x.strategy = y.strategy /\ x.strategyValue = y.strategyValue

\* the last two responses are two successful upserts of one triple with the same
\* data, and the first of them found no row and inserted one
UpsertedTwice ==
    /\ JustAnswered("upsert") /\ resp.status = 201
    /\ prev.op = "upsert" /\ prev.status = 201
    /\ SameTriple(prev.body, resp.body) /\ SameData(prev.body, resp.body)
    /\ prev.body.createdAt = prev.body.updatedAt

\* the actions of the audit entries logged against a flag id, oldest first
ActionsOn(id) ==
    LET about == SelectSeq(audit, LAMBDA a : a.entityId = FlagRef(id))
    IN  [i \in DOMAIN about |-> about[i].action]

DefaultLimit == 20

\* the shape the cache is said to be scoped to
CanonicalShape(entry) ==
    entry.page = 1 /\ entry.limit = DefaultLimit /\ entry.filter = NoFilter

\* C13 (as claimed): a read of any shape other than page 1, default page size, no
\* name filter reports source = database and never writes the cache: every cached
\* page is a page of the default size.
C13_CacheScope ==
    /\ (resp.op = "read" /\ resp.status = 200 /\ ~CanonicalShape(resp))
          => resp.source = "database"
    /\ \A k \in CacheKeys :
          cache[k] # NoEntry => cache[k].payload.pagination.limit = DefaultLimit

\* C14 (as claimed): every successful unfiltered read of page 1 with page size L,
\* whatever was read before it, answers at most L items, pagination.limit = L,
\* pagination.total = the number of rows of (tenant, env), and
\* pagination.totalPages = ceil(total / L).
C14_PaginationHonoured ==
    (JustAnswered("read") /\ resp.status = 200 /\ resp.page = 1
        /\ resp.filter = NoFilter) =>
        LET p == resp.body.pagination
        IN  /\ Len(resp.body.data) <= resp.limit
            /\ p.limit = resp.limit
            /\ p.total = Cardinality(RowsOf(resp.tenantId, resp.env))
            /\ p.totalPages = Ceil(p.total, resp.limit)

\* a step of the promotion handler running in slot r (its arrival included)
PromoteStep(r) ==
    /\ req'[r] # req[r]
    /\ \/ req[r].pc # "idle" /\ req[r].op = "promote"
       \/ req'[r].pc # "idle" /\ req'[r].op = "promote"

\* the step of the promotion in slot r that invalidates the cache
PromoteInvalStep(r) == req[r].pc = "p_inval" /\ req'[r].pc = "p_audit"

\* every cache entry but the one of key k is left as it was
OthersUnchanged(k) == \A j \in CacheKeys : j # k => cache'[j] = cache[j]

\* C15 (as claimed): a promotion removes the cache entry of (tenant, targetEnv)
\* and leaves every other cache entry unchanged.
C15_PromotionRemovesTarget ==
    [][\A r \in Reqs :
        /\ PromoteStep(r) /\ ~PromoteInvalStep(r) => cache' = cache
        /\ PromoteInvalStep(r) =>
            /\ cache'[Key(r)] = NoEntry
            /\ OthersUnchanged(Key(r))]_vars

\* C15 (amended): a promotion touches no cache entry but the one of
\* (tenant, targetEnv): the entries of the source environment, of the third
\* environment and of other tenants stay as they are, and the target's entry is
\* removed unless the DEL fails, in which case it stays as it is.
C15_PromotionInvalidatesOnlyTarget ==
    [][\A r \in Reqs :
        /\ PromoteStep(r) /\ ~PromoteInvalStep(r) => cache' = cache
        /\ PromoteInvalStep(r) =>
            /\ OthersUnchanged(Key(r))
            /\ cache'[Key(r)] = IF req'[r].cacheOk THEN NoEntry ELSE cache[Key(r)]]_vars

\* a promotion staging -> prod succeeded and removed prod's entry (none is left),
\* while the page cached for staging is still there
C15_Witness ==
    /\ JustAnswered("promote") /\ resp.status = 200 /\ resp.cacheOk
    /\ cache[createCacheKey(resp.tenantId, resp.sourceEnv)] # NoEntry
    /\ cache[createCacheKey(resp.tenantId, resp.env)] = NoEntry

\* the tenant owns a row with this id
OwnsRow(t, id) == \E x \in flags : x.id = id /\ x.tenantId = t

\* C16: a delete whose id names no row, or a row of another tenant, ends at the
\* lookup with NotFound (404), or with 500 when the lookup itself failed, and
\* mutates nothing: no row is removed, no audit entry is appended, no cache entry
\* is invalidated, no further call is made.
C16_DeleteNotFound ==
    [][\A r \in Reqs :
        (req[r].pc = "d_find" /\ req'[r] # req[r]
            /\ ~OwnsRow(req[r].tenantId, req[r].id)) =>
            /\ req'[r].pc = "idle" /\ resp'.op = "delete"
            /\ resp'.ref = FlagRef(req[r].id)
            /\ \/ resp'.status = 404 /\ resp'.steps = <<>>
               \/ resp'.status = 500 /\ HasCall(resp'.steps, "dbError")
            /\ ~HasCall(resp'.steps, "audit") /\ ~HasCall(resp'.steps, "del")
            /\ UNCHANGED <<flags, nextId, audit, cache>>]_vars

\* zebra asked to delete the row of acme: NotFound, and the row is still there
C16_Witness ==
    /\ JustAnswered("delete") /\ resp.status = 404
    /\ \E x \in flags : FlagRef(x.id) = resp.ref /\ x.tenantId # resp.tenantId

\* an environment pair the promotion must reject
InvalidPair(sourceEnv, targetEnv) ==
    \/ sourceEnv = targetEnv
    \/ sourceEnv \notin {"dev", "staging", "prod"}
    \/ targetEnv \notin {"dev", "staging", "prod"}

\* C17: a promotion whose environments are equal, missing or outside
\* {dev, staging, prod} is answered 400 on arrival, before any store access: no
\* handler is ever in flight for such a pair, the response records no call, and
\* the flag store, the audit log and every cache entry are as before the request.
C17_PromotionValidation ==
    [][/\ \A r \in Reqs :
            (req'[r].pc # "idle" /\ req'[r].op = "promote")
                => ~InvalidPair(req'[r].sourceEnv, req'[r].env)
       /\ (resp' # resp /\ resp'.op = "promote"
              /\ InvalidPair(resp'.sourceEnv, resp'.env)) =>
            /\ resp'.status = 400 /\ resp'.steps = <<>>
            /\ req' = req
            /\ UNCHANGED <<flags, nextId, clock, audit, cache>>]_vars

\* a promotion prod -> prod was rejected while prod's page was cached
C17_Witness ==
    /\ JustAnswered("promote") /\ resp.status = 400
    /\ resp.sourceEnv = "prod" /\ resp.env = "prod"
    /\ cache[createCacheKey(resp.tenantId, "prod")] # NoEntry

\* C18: a promotion whose source environment holds no row of the tenant ends at
\* the read of the source with the not-found answer 404 (500, the hard failure, is
\* answered only when the read itself failed), and mutates nothing: no row is
\* created or changed, no audit entry is appended, no cache entry is invalidated.
C18_EmptySourceNotFound ==
    [][\A r \in Reqs :
        (req[r].pc = "p_read" /\ req'[r] # req[r]
            /\ FindMany(flags, req[r].tenantId, req[r].sourceEnv) = {}) =>
            /\ req'[r].pc = "idle" /\ resp'.op = "promote"
            /\ \/ resp'.status = 404 /\ resp'.steps = <<>>
               \/ resp'.status = 500 /\ HasCall(resp'.steps, "dbError")
            /\ ~HasCall(resp'.steps, "commit") /\ ~HasCall(resp'.steps, "del")
            /\ UNCHANGED <<flags, nextId, clock, audit, cache>>]_vars

\* a promotion out of the empty dev environment was answered 404 while the
\* target's page was cached
C18_Witness ==
    /\ JustAnswered("promote") /\ resp.status = 404
    /\ resp.sourceEnv = "dev" /\ RowsOf(resp.tenantId, "dev") = {}
    /\ cache[createCacheKey(resp.tenantId, resp.env)] # NoEntry

\* the step of the promotion in slot r that logs the promotion and answers 200
PromoteAuditStep(r) == req[r].pc = "p_audit" /\ req'[r].pc = "idle"

\* the entry that summarises the promotion in slot r
PromotionSummary(r) ==
    [tenantId |-> req[r].tenantId, actor |-> req[r].tenantId, action |-> "PROMOTE",
     entity |-> "Environment", entityId |-> EnvRef(req[r].env),
     diff |-> [source |-> req[r].sourceEnv, target |-> req[r].env,
               promotedCount |-> Len(req[r].sourceFlags)]]

\* C19 (as claimed): every successful promotion appends exactly one audit entry,
\* the PROMOTE summary (entity id = target environment, diff = source, target and
\* the number of rows promoted), and no other entry.
C19_PromotionAlwaysAudited ==
    [][\A r \in Reqs :
        /\ PromoteStep(r) /\ ~PromoteAuditStep(r) => audit' = audit
        /\ PromoteAuditStep(r) =>
            /\ resp'.status = 200
            /\ audit' = Append(audit, PromotionSummary(r))]_vars

\* C19 (amended): a successful promotion appends no per-record entry and at most
\* one entry in all: the PROMOTE summary (entity id = target environment, diff =
\* source, target and the number of rows promoted), appended unless the audit
\* append fails, in which case the promotion still succeeds and logs nothing.
C19_PromotionAudit ==
    [][\A r \in Reqs :
        /\ PromoteStep(r) /\ ~PromoteAuditStep(r) => audit' = audit
        /\ PromoteAuditStep(r) =>
            /\ resp'.status = 200
            /\ resp'.body.promotedCount = Len(req[r].sourceFlags)
            /\ audit' = IF HasCall(resp'.steps, "audit")
                        THEN Append(audit, PromotionSummary(r))
                        ELSE audit]_vars

\* a promotion of one row into an environment that held another row succeeded
\* and logged its summary, after an earlier request had logged an entry
C19_Witness ==
    /\ JustAnswered("promote") /\ resp.status = 200 /\ HasCall(resp.steps, "audit")
    /\ Len(resp.sourceFlags) = 1
    /\ Cardinality(RowsOf(resp.tenantId, resp.env)) = 2
    /\ Len(audit) = 2
    /\ audit[2].action = "PROMOTE"
    /\ audit[2].diff.promotedCount = 1

\* the step of the write in slot r that calls createAuditLog
AuditStep(r) ==
    /\ req[r].pc \in {"u_audit", "d_audit", "p_audit"}
    /\ req'[r] # req[r]

\* the mutation a successful write answered for is in the store
MutationCommitted(entry) ==
    CASE entry.op = "upsert" -> entry.body \in flags
      [] entry.op = "delete" -> ~\E x \in flags : x.id = entry.body.id
      [] entry.op = "promote" ->
            \A i \in DOMAIN entry.sourceFlags :
                \E x \in flags :
                    /\ x.tenantId = entry.tenantId /\ x.env = entry.env
                    /\ x.featureId = entry.sourceFlags[i].featureId
                    /\ SameData(x, entry.sourceFlags[i])

\* C20: audit failures are absorbed.  A failed audit append of an upsert, a delete
\* or a promotion changes nothing but the handler's position: the handler goes on
\* to its next call (the invalidation of an upsert, the store delete of a delete,
\* the 200 of a promotion) with the store untouched.  A write whose audit append
\* failed answers success, with its mutation committed and its invalidation
\* issued after the commit; the one exception is a delete whose store delete,
\* which comes after the audit append, failed by itself.
C20_AuditFailuresAbsorbed ==
    /\ [][\A r \in Reqs :
            (AuditStep(r) /\ audit' = audit) =>
                /\ UNCHANGED <<flags, nextId, clock, cache>>
                /\ req[r].pc = "u_audit" => req'[r].pc = "u_inval"
                /\ req[r].pc = "d_audit" => req'[r].pc = "d_delete"
                /\ req[r].pc = "p_audit" => req'[r].pc = "idle" /\ resp'.status = 200]_vars
    /\ []((IsWrite(resp) /\ HasCall(resp.steps, "auditFailed")) =>
            /\ \/ Succeeded(resp)
               \/ /\ resp.op = "delete" /\ resp.status = 500
                  /\ HasCall(resp.steps, "dbError")
            /\ Succeeded(resp) =>
                /\ InvalidatedAfterCommit(resp.steps,
                                          createCacheKey(resp.tenantId, resp.env))
                /\ JustAnswered(resp.op) => MutationCommitted(resp))

\* an upsert answered 201 although its audit append had failed: the row is in the
\* store, the log is empty
C20_Witness ==
    /\ JustAnswered("upsert") /\ resp.status = 201
    /\ HasCall(resp.steps, "auditFailed")
    /\ resp.body \in flags /\ audit = <<>>

\* the step of the request in slot r that makes a cache call
CacheStep(r) ==
    /\ req[r].pc \in {"r_cache", "r_set", "u_inval", "d_inval", "p_inval"}
    /\ req'[r] # req[r]

\* C21: a failed cache call never fails a request.  A failed get is a miss: the
\* read goes on to the store and, when answered 200, reports source = database.
\* A failed set or delete is a no-op: the cache is as before and the read, upsert,
\* delete or promotion goes on to its normal success (200 with the page read from
\* the store, 201, 204, the audit step of the promotion) with the store as
\* committed.  No response of a request whose cache call failed is an error, but
\* for a read whose store query failed after the failed get.
C21_CacheFailuresAbsorbed ==
    /\ [][\A r \in Reqs :
            CacheStep(r) =>
                /\ UNCHANGED <<flags, nextId, clock, audit>>
                /\ req[r].pc = "r_cache" =>
                    \/ req'[r].pc = "r_db"
                    \/ /\ req'[r].pc = "idle" /\ resp'.status = 200
                       /\ resp'.source = "cache" /\ cache[Key(r)] # NoEntry
                /\ req[r].pc = "r_set" =>
                    /\ req'[r].pc = "idle" /\ resp'.status = 200
                    /\ resp'.source = "database" /\ resp'.body = req[r].payload
                    /\ ~resp'.cacheOk => cache' = cache \/ ~req[r].cacheOk
                /\ req[r].pc = "u_inval" =>
                    /\ req'[r].pc = "idle" /\ resp'.status = 201
                    /\ ~resp'.cacheOk => cache' = cache
                /\ req[r].pc = "d_inval" =>
                    /\ req'[r].pc = "idle" /\ resp'.status = 204
                    /\ ~resp'.cacheOk => cache' = cache
                /\ req[r].pc = "p_inval" =>
                    /\ req'[r].pc = "p_audit"
                    /\ ~req'[r].cacheOk => cache' = cache]_vars
    /\ []((resp.op = "read" /\ resp.status = 200 /\ ~resp.cacheOk)
            => resp.source = "database")
    /\ []((IsWrite(resp) /\ resp.status # 400 /\ ~resp.cacheOk) =>
            /\ Succeeded(resp)
            /\ JustAnswered(resp.op) => MutationCommitted(resp))

\* a read was served from the store, with source = database, although a page was
\* cached for its key: its cache lookup had failed
C21_Witness ==
    /\ JustAnswered("read") /\ resp.status = 200 /\ resp.source = "database"
    /\ ~resp.cacheOk
    /\ prev.op = "read" /\ prev.status = 200 /\ prev.cacheOk
    /\ createCacheKey(prev.tenantId, prev.env) = createCacheKey(resp.tenantId, resp.env)
    /\ IsCachedRead(prev) /\ IsCachedRead(resp)

\* C22 (as claimed): an upsert whose featureId names no feature is answered with a
\* not-found / invalid-reference outcome (404 or 400), not with the 500 of a store
\* failure, and it creates no row, appends no audit entry and invalidates no cache
\* entry.
C22_UnknownFeatureRejected ==
    /\ \A x \in flags : x.featureId \in Features
    /\ (resp.op = "upsert" /\ resp.ref = FlagRef(UnknownFeature)
            /\ ~HasCall(resp.steps, "dbError")) =>
          /\ resp.status \in {400, 404}
          /\ ~HasCall(resp.steps, "commit")
          /\ ~HasCall(resp.steps, "audit") /\ ~HasCall(resp.steps, "auditFailed")
          /\ ~HasCall(resp.steps, "del")

\* C23 (as claimed): an upsert whose body lacks featureId, env, a boolean enabled
\* or strategy, or names an environment outside {dev, staging, prod}, is rejected
\* with the validation error (400) before any call is made: no handler is in
\* flight for such a body, and the response records no commit, audit entry or
\* invalidation.
C23_UpsertValidation ==
    /\ \A r \in Reqs :
        (req[r].pc # "idle" /\ req[r].op = "upsert") =>
            /\ req[r].featureId # Missing
            /\ req[r].env \in {"dev", "staging", "prod"}
            /\ req[r].data.enabled \in BOOLEAN
            /\ req[r].data.strategy # Missing
    /\ (resp.op = "upsert" /\ resp.status = 400) => resp.steps = <<>>
    /\ (resp.op = "upsert"
            /\ (resp.env \notin {"dev", "staging", "prod"} \/ resp.ref = FlagRef(Missing)))
          => resp.status = 400

\* the log holds an entry with these contents
Logged(action, id, before, after) ==
    \E i \in DOMAIN audit :
        /\ audit[i].action = action /\ audit[i].entityId = FlagRef(id)
        /\ audit[i].diff = [before |-> before, after |-> after]

\* C24 (as claimed): under any interleaving, the entry an upsert logs has before =
\* the row stored for the triple immediately before that upsert's own mutation
\* (none, with action CREATE, exactly when no row existed then; otherwise action
\* UPDATE) and after = the row the upsert wrote; the entry a delete logs has
\* before = the row the delete removed and after = none.
C24_AuditDiffAccurate ==
    \A r \in Reqs :
        /\ (req[r].pc = "u_inval" /\ HasCall(req[r].steps, "audit")) =>
              Logged(IF req[r].replaced = NoFlag THEN "CREATE" ELSE "UPDATE",
                     req[r].upsertedFlag.id, req[r].replaced, req[r].upsertedFlag)
        /\ (req[r].pc = "d_inval" /\ HasCall(req[r].steps, "audit")) =>
              Logged("DELETE", req[r].removed.id, req[r].removed, NoFlag)

\* among the calls of a handler, every call named a comes before every call named b
CallsBefore(steps, a, b) ==
    \A i, j \in DOMAIN steps :
        (steps[i].call \in a /\ steps[j].call \in b) => i < j

\* C25 (as claimed): every upsert and delete makes its calls in the order store
\* mutation, audit entry, cache invalidation; and a DELETE entry is in the log only
\* when the store deletion has committed: no row with the entry's id is stored.
C25_WriteOrdering ==
    /\ (resp.op \in {"upsert", "delete"} /\ Succeeded(resp)) =>
          /\ CallsBefore(resp.steps, {"commit"}, {"audit", "auditFailed"})
          /\ CallsBefore(resp.steps, {"audit", "auditFailed"}, {"del"})
    /\ \A i \in DOMAIN audit :
          audit[i].action = "DELETE" =>
              ~\E x \in flags : FlagRef(x.id) = audit[i].entityId

\* the last two responses are successful upserts of one triple and nothing is in
\* flight
BothUpsertsReturned ==
    /\ AllIdle
    /\ resp.op = "upsert" /\ resp.status = 201
    /\ prev.op = "upsert" /\ prev.status = 201
    /\ SameTriple(prev.body, resp.body)

\* of two rows written, the one whose commit came last
LastCommitted(x, y) == IF x.updatedAt > y.updatedAt THEN x ELSE y

\* the step in which the upsert in slot r commits its write
UpsertCommitStep(r) == req[r].pc = "u_write" /\ req'[r].pc = "u_audit"

\* the rows stored for the triple (t, f, e)
RowsOfTriple(store, t, f, e) ==
    {x \in store : x.tenantId = t /\ x.featureId = f /\ x.env = e}

\* C26: last committed write wins.  Every commit of an upsert, whatever other
\* requests are in flight, leaves exactly one row for its triple and that row
\* carries the three data fields of this upsert, none of them from the row it
\* replaced; and once two upserts of one triple, run in any interleaving, have
\* both returned, the one row stored for the triple is the row written by the
\* upsert that committed last.
C26_LastCommittedWriteWins ==
    /\ [][\A r \in Reqs : UpsertCommitStep(r) =>
            \E x \in flags' :
                /\ RowsOfTriple(flags', req[r].tenantId, req[r].featureId, req[r].env) = {x}
                /\ SameData(x, req[r].data)]_vars
    /\ [](BothUpsertsReturned =>
            {x \in flags : SameTriple(x, resp.body)}
                = {LastCommitted(resp.body, prev.body)})

\* two upserts of one triple with different data overlapped: the one that
\* committed first answered last, and the row holds the data of the other
C26_Witness ==
    /\ BothUpsertsReturned
    /\ resp.body.updatedAt < prev.body.updatedAt
    /\ ~SameData(prev.body, resp.body)
    /\ \E x \in flags : SameTriple(x, prev.body) /\ SameData(x, prev.body)


\* C27: the audit log is append-only.  Every step of every operation leaves the
\* entries already logged where and as they were: the log after the step starts
\* with the log before it.  Entries about a flag therefore stay when its row is
\* deleted.
C27_AuditAppendOnly ==
    [][/\ Len(audit') >= Len(audit)
       /\ SubSeq(audit', 1, Len(audit)) = audit]_vars

\* a flag was written and then deleted: its row is gone and both entries about
\* it, the older one first, are in the log
C27_Witness ==
    /\ JustAnswered("delete") /\ resp.status = 204
    /\ Len(audit) = 2
    /\ audit[1].action \in {"CREATE", "UPDATE"} /\ audit[2].action = "DELETE"
    /\ audit[1].entityId = audit[2].entityId
    /\ ~\E x \in flags : FlagRef(x.id) = audit[2].entityId


\* the tenant whose request the step of slot r belongs to
ActingTenant(r) == IF req[r].pc # "idle" THEN req[r].tenantId ELSE req'[r].tenantId

\* what belongs to the tenants other than t
OthersRows(store, t) == {x \in store : x.tenantId # t}
OthersEntries(log, t) == SelectSeq(log, LAMBDA a : a.tenantId # t)

\* a step of the handler in slot r leaves the rows, the audit entries and the
\* cache entries of every other tenant as they were
EffectsStayInTenant(r) ==
    req'[r] # req[r] =>
        LET t == ActingTenant(r)
        IN  /\ OthersRows(flags', t) = OthersRows(flags, t)
            /\ OthersEntries(audit', t) = OthersEntries(audit, t)
            /\ \A k \in CacheKeys : k[2] # t => cache'[k] = cache[k]

\* the page a read takes from the store counts and lists rows of its own tenant
\* only
ReadSeesOwnRowsOnly(r) ==
    (req[r].pc = "r_db" /\ (req'[r].pc = "r_set" \/ (req'[r].pc = "idle" /\ resp'.status = 200))) =>
        LET t == req[r].tenantId
            own == flags \ OthersRows(flags, t)
            payload == IF req'[r].pc = "r_set" THEN req'[r].payload ELSE resp'.body
        IN  /\ payload.pagination.total
                 = Cardinality(ReadWhere(own, t, req[r].env, req[r].filter))
            /\ \A i \in DOMAIN payload.data :
                 \E x \in own : x.id = payload.data[i].id

\* every row a cache entry holds is a row of the tenant in its key
CacheHoldsOwnRowsOnly ==
    \A k \in CacheKeys :
        cache[k] # NoEntry =>
            \A i \in DOMAIN cache[k].payload.data :
                \A x \in flags : x.id = cache[k].payload.data[i].id => x.tenantId = k[2]

\* the effects of tenant isolation: whatever one tenant's request does, the other
\* tenants' rows, audit entries and cache entries stay as they were, and its
\* reads list and count its own rows only
C28_EffectsIsolated ==
    /\ [][\A r \in Reqs : EffectsStayInTenant(r) /\ ReadSeesOwnRowsOnly(r)]_vars
    /\ []CacheHoldsOwnRowsOnly

\* C28: tenant isolation.  Every store query a handler issues selects its rows
\* by the requesting tenant's id, and so no request changes another tenant's
\* rows, audit entries or cache entries, and a read lists and counts the rows of
\* its own tenant only.
C28_TenantIsolation ==
    /\ [](\A r \in Reqs : req[r].pc \in StorePcs => "tenantId" \in QueryScope(req[r].pc))
    /\ C28_EffectsIsolated


\* the seconds at which an entry put in a behaviour of SpecTtl can run out
ExpiryTimes ==
    {n * TickSeconds + CACHE_TTL :
        n \in 0 .. ((MaxTime + MaxTtlOps * (CACHE_TTL + TickSeconds)) \div TickSeconds) + 1}

\* the step in which the read in slot r awaits setInCache
PutStep(r) == req[r].pc = "r_set" /\ req'[r].pc = "idle"

\* the step in which the read in slot r is answered from the cache
HitStep(r) == req[r].pc = "r_cache" /\ req'[r].pc = "idle" /\ resp'.source = "cache"

\* C29: bounded lifetime of cache entries.  A put that reaches Redis stores the
\* page under the key with CACHE_TTL seconds to live from that moment, whatever
\* the key held before (a put whose Redis call fails leaves the key as it was);
\* an entry is never held, and so never served, once its TTL has elapsed since
\* the put that stored it; a successful page-1 unfiltered read answered first
\* after the key's entry ran out reports source = database; and every entry is
\* eventually gone from its key, by expiry, invalidation or overwriting.
C29_BoundedLifetime ==
    /\ [][\A r \in Reqs :
            /\ PutStep(r) =>
                 \/ cache' = cache
                 \/ cache' = [cache EXCEPT ![Key(r)] =
                                [present |-> TRUE, payload |-> req[r].payload,
                                 asOf |-> req[r].asOf,
                                 expiresAt |-> wallClock + CACHE_TTL]]
            /\ HitStep(r) =>
                 /\ cache[Key(r)] # NoEntry
                 /\ wallClock < cache[Key(r)].expiresAt
                 /\ resp'.body = cache[Key(r)].payload]_vars
    /\ [](\A k \in CacheKeys :
            cache[k] # NoEntry =>
                /\ wallClock < cache[k].expiresAt
                /\ cache[k].expiresAt \in ExpiryTimes)
    /\ []((resp.op = "read" /\ resp.status = 200 /\ resp.seen = "expired")
            => resp.source = "database")
    /\ \A d \in ExpiryTimes :
            (cache[TtlKey] # NoEntry /\ cache[TtlKey].expiresAt = d)
                ~> (cache[TtlKey] = NoEntry \/ cache[TtlKey].expiresAt # d)

\* a read stored the page, the entry ran out CACHE_TTL seconds later, and the
\* next read was answered from the database and stored the page again
C29_Witness ==
    /\ JustAnswered("read") /\ resp.status = 200 /\ resp.source = "database"
    /\ resp.seen = "expired"
    /\ prev.op = "read" /\ prev.status = 200 /\ prev.source = "database"
    /\ wallClock >= CACHE_TTL
    /\ cache[TtlKey] # NoEntry /\ cache[TtlKey].expiresAt > CACHE_TTL


\* C30: bounded cache calls.  Every request, read, upsert, delete or promotion,
\* that is being handled is eventually answered, also when Redis never answers
\* the cache call the handler awaits.
C30_RequestsReturn ==
    \A r \in Reqs : (req[r].pc # "idle") ~> (req[r].pc = "idle")


\* the strategyValue a request body gives, null when it gives none
GivenOrNull(v) == IF v = JUndef THEN JNull ELSE v

\* C31: upsert replaces the record in full.  The commit of an upsert leaves one
\* row for the triple holding exactly the given enabled and strategy and the
\* given strategyValue, null when none was given, whatever the row held before;
\* and the record the upsert returns is that row.
C31_FullReplacement ==
    [][\A r \in Reqs : UpsertCommitStep(r) =>
          \E x \in flags' :
            /\ RowsOfTriple(flags', req[r].tenantId, req[r].featureId, req[r].env) = {x}
            /\ x.enabled = req[r].data.enabled
            /\ x.strategy = req[r].data.strategy
            /\ x.strategyValue = GivenOrNull(req[r].strategyValue)
            /\ req'[r].upsertedFlag = x]_vars

\* the part of C31 the code keeps: as C31 for every strategyValue that is absent
\* or truthy in JavaScript; a falsy one (0, "", false, null) is stored as null
C31_ReplacesWithValueOrNull ==
    [][\A r \in Reqs : UpsertCommitStep(r) =>
          \E x \in flags' :
            /\ RowsOfTriple(flags', req[r].tenantId, req[r].featureId, req[r].env) = {x}
            /\ x.enabled = req[r].data.enabled
            /\ x.strategy = req[r].data.strategy
            /\ x.strategyValue = IF JsTruthy(req[r].strategyValue)
                                 THEN req[r].strategyValue ELSE JNull
            /\ req'[r].upsertedFlag = x]_vars


\* the step is a call of deleteFromCache on its own
InvalidateCall == resp'.op = "invalidate" /\ ops' = ops + 1 /\ AllIdle

\* the call before this one was a deleteFromCache of the same key that reached
\* Redis
SecondInARow == resp.op = "invalidate" /\ resp.key = resp'.key /\ resp.cacheOk

\* C32 as stated: every call of invalidate leaves no entry under its key, with or
\* without an entry there before, leaves the other keys as they were, and a
\* second call in a row changes nothing.
C32_InvalidateAlwaysRemoves ==
    [][InvalidateCall =>
          /\ cache'[resp'.key] = NoEntry
          /\ \A k \in CacheKeys \ {resp'.key} : cache'[k] = cache[k]
          /\ SecondInARow => cache' = cache]_vars

\* C32: invalidation is idempotent.  A call of invalidate returns normally in
\* every case; when its DEL reaches Redis it leaves no entry under its key, with
\* or without an entry there before, and a second such call in a row leaves the
\* cache as the first left it; when its DEL fails the cache is as it was.  The
\* entries of the other keys are never changed.
C32_InvalidateIdempotent ==
    [][InvalidateCall =>
          /\ resp'.cacheOk => cache'[resp'.key] = NoEntry
          /\ ~resp'.cacheOk => cache' = cache
          /\ \A k \in CacheKeys \ {resp'.key} : cache'[k] = cache[k]
          /\ (resp'.cacheOk /\ SecondInARow) => cache' = cache
          /\ deleteFromCache(cache', resp'.key, TRUE) = deleteFromCache(cache, resp'.key, TRUE)]_vars

\* a key holding a page was invalidated twice in a row, the second call finding
\* nothing, while another key still holds its page
C32_Witness ==
    /\ resp.op = "invalidate" /\ prev.op = "invalidate" /\ resp.key = prev.key
    /\ prev.cacheOk /\ prev.had /\ resp.cacheOk /\ ~resp.had
    /\ cache[resp.key] = NoEntry
    /\ \E k \in CacheKeys : cache[k] # NoEntry


\* a read is being handled in slot r
ReadInFlight(r) == req[r].pc # "idle" /\ req[r].op = "read"

PromoteCommitStep(r) == req[r].pc = "p_tx" /\ req'[r].pc = "p_inval"

\* the write of (t, f, e) kept the identity of the row it found: same id, same
\* createdAt, one row for the triple
KeptIdentity(t, f, e) ==
    LET old == FindUnique(flags, t, f, e)
    IN  old # NoFlag =>
            \E x \in flags' :
                /\ RowsOfTriple(flags', t, f, e) = {x}
                /\ x.id = old.id /\ x.createdAt = old.createdAt

\* the write of (t, f, e) that found no row made one with an id no row had and
\* with the time of the commit as its timestamps
MadeFresh(t, f, e) ==
    FindUnique(flags, t, f, e) = NoFlag =>
        \E x \in flags' :
            /\ RowsOfTriple(flags', t, f, e) = {x}
            /\ \A y \in flags : y.id # x.id
            /\ x.createdAt = clock' /\ x.updatedAt = clock'

\* C34: record identity.  An upsert or a promotion that finds a row for the
\* triple changes it in place: the row keeps its id and its createdAt.  A row a
\* promotion creates in the target has an id no row had, the source row's
\* included, and in both cases the target row's updatedAt is newer than the
\* source row's timestamps, which are not carried over.
C34_RecordIdentity ==
    [][\A r \in Reqs :
        /\ UpsertCommitStep(r) =>
              KeptIdentity(req[r].tenantId, req[r].featureId, req[r].env)
        /\ PromoteCommitStep(r) =>
              \A i \in DOMAIN req[r].sourceFlags :
                LET src == req[r].sourceFlags[i]
                IN  /\ KeptIdentity(src.tenantId, src.featureId, req[r].env)
                    /\ MadeFresh(src.tenantId, src.featureId, req[r].env)
                    /\ \E x \in flags' :
                         /\ x.tenantId = src.tenantId /\ x.featureId = src.featureId
                         /\ x.env = req[r].env
                         /\ x.id # src.id
                         /\ x.updatedAt > src.updatedAt
                         /\ x.updatedAt > src.createdAt]_vars

\* a promotion of two source rows went through: one found its row in the target
\* and changed it in place, the other made a new row under a new id
C34_Witness ==
    /\ JustAnswered("promote") /\ resp.status = 200
    /\ Len(resp.sourceFlags) = 2
    /\ \E i, j \in DOMAIN resp.sourceFlags :
         /\ \E old \in resp.targetBefore, x \in RowsOf(resp.tenantId, resp.env) :
              /\ old.featureId = resp.sourceFlags[i].featureId
              /\ x.featureId = old.featureId /\ x.id = old.id
         /\ \A old \in resp.targetBefore : old.featureId # resp.sourceFlags[j].featureId
         /\ \E x \in RowsOf(resp.tenantId, resp.env) :
              /\ x.featureId = resp.sourceFlags[j].featureId
              /\ x.id # resp.sourceFlags[j].id
              /\ \A old \in resp.targetBefore : old.id # x.id


\* row x is one the promotion in slot r writes: a row of its tenant in its target
\* environment for a feature its source read returned
PromotionWrites(r, x) ==
    /\ x.tenantId = req[r].tenantId /\ x.env = req[r].env
    /\ \E i \in DOMAIN req[r].sourceFlags : req[r].sourceFlags[i].featureId = x.featureId

\* C35: promotion is a merge with a narrow frame.  The commit of a promotion
\* changes, of all rows, only those of (tenant, targetEnv) whose feature the
\* source holds: every row of (tenant, sourceEnv), every target row of a feature
\* the source lacks, every row of the third environment and of other tenants is
\* stored after the commit exactly as before; and no other step of a promotion
\* changes any row.
C35_PromotionFrame ==
    [][\A r \in Reqs :
        /\ PromoteCommitStep(r) =>
              /\ {x \in flags' : ~PromotionWrites(r, x)} = {x \in flags : ~PromotionWrites(r, x)}
              /\ FindMany(flags', req[r].tenantId, req[r].sourceEnv)
                    = FindMany(flags, req[r].tenantId, req[r].sourceEnv)
        /\ (PromoteStep(r) /\ ~PromoteCommitStep(r)) => flags' = flags]_vars

\* a promotion went through into an environment holding a row of a feature the
\* source lacks: that row and the source rows are stored as before, next to the
\* row the promotion made
C35_Witness ==
    /\ JustAnswered("promote") /\ resp.status = 200
    /\ \E old \in resp.targetBefore :
         /\ \A i \in DOMAIN resp.sourceFlags : resp.sourceFlags[i].featureId # old.featureId
         /\ old \in flags
    /\ \A i \in DOMAIN resp.sourceFlags : resp.sourceFlags[i] \in flags
    /\ Cardinality(RowsOf(resp.tenantId, resp.env)) > Cardinality(resp.targetBefore)


\* entries answer the same cached page: page-1 unfiltered reads of one tenant and
\* environment
SamePage(x, y) ==
    /\ IsCachedRead(x) /\ IsCachedRead(y)
    /\ x.tenantId = y.tenantId /\ x.env = y.env

\* C36: a cache hit returns the stored page verbatim.  A read answered from the
\* cache returns the page held under its key, items and pagination, as it is;
\* the page held under a key is the one the database-sourced read that put it
\* returned, and it changes only by a put or by being removed; so a cache-sourced
\* read returns what the read answered just before it on the same page returned,
\* rollout decisions included.
C36_CacheHitVerbatim ==
    /\ [][\A r \in Reqs :
            /\ HitStep(r) =>
                 /\ cache[Key(r)] # NoEntry
                 /\ resp'.body = cache[Key(r)].payload
                 /\ cache' = cache
            /\ (PutStep(r) /\ cache' # cache) =>
                 /\ resp'.source = "database"
                 /\ cache'[Key(r)].payload = resp'.body
            /\ \A k \in CacheKeys :
                 (cache'[k] # cache[k] /\ req'[r] # req[r]) =>
                    \/ cache'[k] = NoEntry
                    \/ PutStep(r) /\ k = Key(r)]_vars
    /\ []((/\ resp.op = "read" /\ resp.source = "cache"
           /\ prev.op = "read" /\ prev.status = 200 /\ prev.cacheOk
           /\ SamePage(prev, resp))
            => resp.body = prev.body)

\* a page holding a PERCENTAGE flag at 50 percent was read from the database and
\* then from the cache, with the same decision for the flag
C36_Witness ==
    /\ JustAnswered("read") /\ resp.source = "cache"
    /\ prev.op = "read" /\ prev.source = "database" /\ SamePage(prev, resp)
    /\ resp.body = prev.body
    /\ \E i \in DOMAIN resp.body.data :
         /\ resp.body.data[i].strategy = "PERCENTAGE"
         /\ \E x \in flags :
              /\ x.id = resp.body.data[i].id /\ x.enabled
              /\ x.strategyValue = JObj(JNum(50))


\* the step in which the transaction of the promotion in slot r fails
PromoteAbortStep(r) == req[r].pc = "p_tx" /\ req'[r].pc = "idle"

\* C37: a failed promotion leaves no trace.  The step in which the transaction
\* fails answers 500 and leaves the rows, the audit log and the cache as they
\* were; the promotion has made no cache or audit call before it, so after a
\* promotion answered 500 no PROMOTE entry was appended and the target's cache
\* entry was not invalidated by it.
C37_FailedPromotionNoTrace ==
    /\ [][\A r \in Reqs : PromoteAbortStep(r) =>
            /\ resp'.op = "promote" /\ resp'.status = 500
            /\ flags' = flags /\ audit' = audit /\ cache' = cache]_vars
    /\ [][\A r \in Reqs : (PromoteStep(r) /\ req[r].pc \in {"p_read", "p_tx"}) =>
            audit' = audit /\ cache' = cache]_vars
    /\ []((resp.op = "promote" /\ resp.status = 500) =>
            /\ ~HasCall(resp.steps, "commit")
            /\ ~HasCall(resp.steps, "del")
            /\ ~HasCall(resp.steps, "audit") /\ ~HasCall(resp.steps, "auditFailed"))

\* the target's page was cached, then a promotion into it failed inside its
\* transaction: the page is still cached, the log is empty and the target rows
\* are the ones found
C37_Witness ==
    /\ JustAnswered("promote") /\ resp.status = 500 /\ resp.failedAt > 0
    /\ cache[createCacheKey(resp.tenantId, resp.env)] # NoEntry
    /\ audit = <<>>
    /\ RowsOf(resp.tenantId, resp.env) = resp.targetBefore


\* the step in which a store call of the upsert in slot r fails
UpsertFailStep(r) == req[r].pc \in {"u_find", "u_write"} /\ req'[r].pc = "idle"

\* C38: a failed upsert leaves no trace.  The step in which the store call of an
\* upsert fails, by a store error or by a constraint violation, answers with a
\* failure and leaves the rows, the audit log and the cache as they were; the
\* upsert has made no audit or cache call before it, so after an upsert answered
\* with a failure no CREATE or UPDATE entry was appended and the entry of
\* (tenant, env) was not invalidated by it.
C38_FailedUpsertNoTrace ==
    /\ [][\A r \in Reqs : UpsertFailStep(r) =>
            /\ resp'.op = "upsert" /\ ~Succeeded(resp')
            /\ flags' = flags /\ audit' = audit /\ cache' = cache]_vars
    /\ []((resp.op = "upsert" /\ ~Succeeded(resp)) =>
            /\ ~HasCall(resp.steps, "commit")
            /\ ~HasCall(resp.steps, "del")
            /\ ~HasCall(resp.steps, "audit") /\ ~HasCall(resp.steps, "auditFailed"))

\* the prod page was cached, then an upsert on it failed on the foreign key of
\* its featureId: the page is still cached, the log is empty, the rows are the
\* seeded ones
C38_Witness ==
    /\ JustAnswered("upsert") /\ resp.status = 500 /\ HasCall(resp.steps, "P2003")
    /\ cache[createCacheKey(resp.tenantId, resp.env)] # NoEntry
    /\ audit = <<>> /\ flags = SeedFlags


\* C39: promotion copies a snapshot.  The commit of a promotion leaves, for every
\* source row its initial read returned, a target row with the enabled, strategy
\* and strategyValue that read returned, whatever happened to the source row
\* since; and a promotion that went through reports as promotedCount the number
\* of rows read.
C39_PromotionSnapshot ==
    /\ [][\A r \in Reqs : PromoteCommitStep(r) =>
            \A i \in DOMAIN req[r].sourceFlags :
                LET src == req[r].sourceFlags[i]
                IN  \E x \in flags' :
                      /\ RowsOfTriple(flags', src.tenantId, src.featureId, req[r].env) = {x}
                      /\ SameData(x, src)]_vars
    /\ []((resp.op = "promote" /\ resp.status = 200) =>
            resp.body.promotedCount = Len(resp.sourceFlags))

\* a source row was upserted with other data after the promotion had read it and
\* before the promotion committed: the target row holds the data read
C39_Witness ==
    /\ AllIdle /\ resp.op = "promote" /\ resp.status = 200
    /\ \E i \in DOMAIN resp.sourceFlags :
         LET src == resp.sourceFlags[i]
         IN  \E cur \in flags, x \in flags :
               /\ cur.id = src.id /\ cur.updatedAt > src.updatedAt
               /\ ~SameData(cur, src)
               /\ x.tenantId = src.tenantId /\ x.featureId = src.featureId
               /\ x.env = resp.env
               /\ x.updatedAt > cur.updatedAt
               /\ SameData(x, src)

====
